---- MODULE Spec2Model ----
(***************************************************************************)
(* okx-hft-collector: the batching pipeline and the shutdown protocol.     *)
(*                                                                         *)
(* One asyncio event loop runs four tasks: the supervisor `main` (which    *)
(* runs the session manager run_forever inline), the flush scheduler       *)
(* periodic_flush, the periodic book materializer periodic_snapshots and   *)
(* the metrics task.  A task runs atomically from one suspension point to  *)
(* the next; every action below is one such run.  The suspension points    *)
(* are the writer calls, the sleeps, the socket read and the awaits of     *)
(* other tasks.                                                            *)
(***************************************************************************)
EXTENDS Integers, Sequences, FiniteSets, TLC

(* Bounds of the model. *)
MaxRecords == 3      \* records created in one behaviour
MaxFrame == 2        \* elements in one frame's data array
MaxDepth == 1        \* rows one materialization of the book yields
BatchMaxSize == 2    \* batch_max_size of every handler, scaled down

Records == 1..MaxRecords

TradeLike == {"trades", "funding_rate", "mark_price", "tickers", "open_interest"}
SwapBufs == {"batch_snapshots", "batch_updates"}
Buffers == TradeLike \cup SwapBufs

(* handler.flush() calls of one pass, in call order; OrderBookHandler.flush *)
(* is _flush_snapshots then _flush_updates.                                 *)
FlushSeq ==
    << "trades", "batch_snapshots", "batch_updates", "funding_rate",
       "mark_price", "tickers", "open_interest" >>

PassEnd == Len(FlushSeq) + 1

HandlerOf(b) == IF b \in SwapBufs THEN "orderbook" ELSE b

(* The handlers list of flush_all_handlers. *)
HandlerOrder ==
    << "trades", "orderbook", "funding_rate", "mark_price", "tickers",
       "open_interest" >>

Tasks == {"main", "flush", "snap"}

(* settings.CHANNELS of the modelled deployment, besides the book channel:  *)
(* the handlers of the channels left out are constructed and flushed, but   *)
(* receive no frame.                                                        *)
Channels == {"trades", "funding_rate"}

VARIABLES
    mainPc,       \* where the supervisor / session manager task is suspended
    mainCont,     \* what main does when its writer call returns
    flushPc,      \* where periodic_flush is suspended
    snapPc,       \* where periodic_snapshots is suspended
    metrics,      \* state of the metrics task
    storage,      \* client.storage: "None" or "set"
    hstorage,     \* TRUE when the handlers' storage attribute is the writer
    buf,          \* the handlers' batch lists
    call,         \* the writer call each task has in flight
    passIdx,      \* position of a task's flush_all_handlers pass in FlushSeq
    passLog,      \* handlers whose flush() the task's current pass has invoked
    book,         \* the in-memory book of the instrument
    nextId,       \* next fresh record
    pending,      \* delta record on_increment still has to append (0: none)
    closeCalls,   \* calls of storage.close()
    \* history
    shutdown,     \* TRUE once main has been cancelled
    atShutdown,   \* records in the buffers when main was cancelled
    shutCnt,      \* per record: writer calls begun during shutdown carrying it
    shutFail,     \* a writer call raised during shutdown
    finalHanded,  \* records handed by the scheduler's final pass
    failed,       \* records of batches whose writer call raised
    clean         \* per buffer: flush() has returned and nothing was appended since

(* The order-book engine (OrderBookL2) and the order-book handler seen from  *)
(* the book's side, for one instrument.  The pipeline above keeps only the  *)
(* book's validity and depth; these variables keep its levels.              *)
VARIABLES
    hasBook,      \* inst_id in handler.books
    bids,         \* OrderBookL2.bids: the items of the OrderedDict, in order
    asks,         \* OrderBookL2.asks
    seq_id,       \* OrderBookL2.seq_id: None or << n >>
    is_valid,     \* OrderBookL2._is_valid
    nSnap,        \* len(handler.batch_snapshots)
    conn,         \* run_forever's loop: "connecting", "streaming" or "backoff"
    hpc,          \* "gap" while on_increment awaits the gap path's writer call
    todo,         \* elements of the frame's data array still to be handled
    wsSent,       \* frames sent on the current connection
    evt           \* the last operation of the session manager's task: its kind,
                  \* the length of the frame's data array, the events so far

(* The order-book handler with the books of all its instruments and the     *)
(* rows of its snapshot batch, each row with its snapshot_id.               *)
VARIABLES
    books,            \* handler.books: the items << instId, book >>, in order
    batch_snapshots,  \* handler.batch_snapshots: the rows
    uuids,            \* calls of uuid.uuid4() so far
    batch_to_write    \* the list last handed to write_orderbook_snapshots

(* The session manager (OKXWebSocketClient.run_forever) by itself.  Delays  *)
(* are in units of half a second.                                           *)
VARIABLES
    attempt,      \* client._attempt
    wpc,          \* where run_forever is: "connect" (before ws_connect),
                  \* "subscribe" (before send_json), "read" (in the read loop),
                  \* "sleep" (in asyncio.sleep), "raised" (left by an exception),
                  \* "failed" (_run_once has raised, the except block is next)
    delay,        \* the delay of the sleep in progress, None outside a sleep
    gotFrame,     \* a frame was read on the connection last opened
    wsOut,        \* the frames sent on the connection last opened
    wlog,         \* what run_forever did since _run_once last raised, in order
    hookErr       \* on_reconnect raised when run_forever last called it

(* The dispatch of the frames read (_on_message). *)
VARIABLES
    frame,        \* the frame _on_message was last called with
    handled,      \* the handler method that call invoked, None if none
    hbuf          \* per handler batch other than batch_snapshots: its length

(* The handlers and the engine called on raw input. *)
VARIABLES
    fnArg,        \* the function called last and its arguments
    fnRet         \* what that call returned, or did to the handler

ctl == << mainPc, mainCont, flushPc, snapPc, metrics, storage, hstorage >>
data == << buf, call, passIdx, passLog, book, nextId, pending, closeCalls >>
hist == << shutdown, atShutdown, shutCnt, shutFail, finalHanded, failed, clean >>
hvars == << hasBook, nSnap, conn, hpc, todo, wsSent, evt >>
tvars == << books, batch_snapshots, uuids, batch_to_write >>
wvars == << attempt, wpc, delay, gotFrame, wsOut, wlog, hookErr >>
mvars == << frame, handled, hbuf >>
pvars == << fnArg, fnRet >>
xvars == << tvars, wvars, mvars, pvars >>
bvars == << bids, asks, seq_id, is_valid, hvars, xvars >>
vars == << ctl, data, hist, bvars >>

\* Python's None among values written << n >>
None == << >>

\* a frame without `arg`, `action` and `data`
NoFrame == [arg |-> None, action |-> None, data |-> << >>]

\* the batches of the handlers besides batch_snapshots
HandlerBatches ==
    {"trades", "funding_rate", "mark_price", "tickers", "open_interest", "batch_updates"}

\* nothing has happened
NoEvt == [kind |-> "none", len |-> 0, log |-> << >>]

\* OrderBookHandler.__init__ and OKXWebSocketClient.__init__: no book yet
BookInit ==
    /\ hasBook = FALSE
    /\ bids = << >>
    /\ asks = << >>
    /\ seq_id = None
    /\ is_valid = FALSE
    /\ nSnap = 0
    /\ conn = "connecting"
    /\ hpc = "idle"
    /\ todo = << >>
    /\ wsSent = << >>
    /\ evt = NoEvt
    /\ books = << >>
    /\ batch_snapshots = << >>
    /\ uuids = 0
    /\ batch_to_write = << >>
    /\ attempt = 0
    /\ wpc = "connect"
    /\ delay = None
    /\ gotFrame = FALSE
    /\ wsOut = << >>
    /\ wlog = << >>
    /\ hookErr = FALSE
    /\ fnArg = [fn |-> "none"]
    /\ fnRet = None
    /\ frame = NoFrame
    /\ handled = None
    /\ hbuf = [b \in HandlerBatches |-> 0]

Range(s) == { s[i] : i \in 1..Len(s) }

NoCall == [buf |-> "none", alias |-> FALSE, items |-> << >>]

(* The list a writer call holds: the handler's own list while the handler  *)
(* has not rebound its attribute, else the list as it was when rebound.    *)
View(c, bf) == IF c.alias THEN bf[c.buf] ELSE c.items

\* the records appended to the call's buffer since the call started and
\* still in the buffer
Late(c, bf) ==
    IF c.buf = "none" THEN {}
    ELSE IF c.alias THEN Range(bf[c.buf]) \ Range(c.items)
    ELSE Range(bf[c.buf])

(* k fresh records starting at id n *)
Fresh(n, k) == [i \in 1..k |-> n + i - 1]

AllBuffered(bf) == UNION { Range(bf[b]) : b \in Buffers }


(***************************************************************************)
(* Handler flushes.                                                        *)
(***************************************************************************)

\* _flush_batch of the trades, funding_rate, mark_price, tickers and
\* open_interest handlers after the writer call returned: self.batch = []
TradeLikeAfterOk_NoClear(b, bf) == bf

TradeLikeAfterOk(b, bf) == [bf EXCEPT ![b] = << >>]

\* the same handlers after the writer call raised: the message is not the
\* ClickHouse "0" message, so the batch is logged and kept
TradeLikeAfterRaise(b, bf) == bf

\* The part of one buffer's flush that runs before the first suspension.
\* hs: the handler has a writer.  Result: the buffers, whether a writer call
\* was started, and the list passed to it (alias: the handler's own list).
SyncFlush(b, bf, hs) ==
    IF bf[b] = << >>
    THEN [buf |-> bf, started |-> FALSE, alias |-> FALSE, items |-> << >>]
    ELSE IF b \in SwapBufs
    THEN \* batch_to_write = self.batch_x; self.batch_x = []; if self.storage: ...
         [buf |-> [bf EXCEPT ![b] = << >>], started |-> hs, alias |-> FALSE,
          items |-> IF hs THEN bf[b] ELSE << >>]
    ELSE IF hs
    THEN \* await self.storage.write_x(self.batch)
         [buf |-> bf, started |-> TRUE, alias |-> TRUE, items |-> bf[b]]
    ELSE IF b = "trades"
    THEN \* no storage check: None.write_trades raises, caught, batch kept
         [buf |-> TradeLikeAfterRaise(b, bf), started |-> FALSE, alias |-> FALSE,
          items |-> << >>]
    ELSE \* "No storage available, skipping flush": self.batch = []
         [buf |-> [bf EXCEPT ![b] = << >>], started |-> FALSE, alias |-> FALSE,
          items |-> << >>]

\* flush_all_handlers from position i of FlushSeq until a writer call
\* suspends the task (idx: its position) or the pass ends (idx = PassEnd).
RECURSIVE RunPass(_, _, _)
RunPass(i, bf, hs) ==
    IF i >= PassEnd
    THEN [buf |-> bf, idx |-> PassEnd, started |-> FALSE, alias |-> FALSE,
          items |-> << >>]
    ELSE LET r == SyncFlush(FlushSeq[i], bf, hs)
         IN  IF r.started
             THEN [buf |-> r.buf, idx |-> i, started |-> TRUE, alias |-> r.alias,
                   items |-> r.items]
             ELSE RunPass(i + 1, r.buf, hs)

\* Where the pass goes on after the writer call of position i returned; the
\* handler catches the writer's exception, so flush() returns either way.
PassAfterRaise_Abort(i) == PassEnd

PassAfterRaise(i) == i + 1

PassAfterOk(i) == i + 1

\* handlers whose flush() the pass invokes on its way from position i to j
Invoked(i, j) ==
    LET s == SelectSeq(SubSeq(FlushSeq, i, IF j < PassEnd THEN j ELSE Len(FlushSeq)),
                       LAMBDA b : b # "batch_updates")
    IN  [p \in 1..Len(s) |-> HandlerOf(s[p])]

\* buffers whose flush returned on the way from position i to j (j excluded)
Returned(i, j) == { FlushSeq[p] : p \in { q \in 1..Len(FlushSeq) : i <= q /\ q < j } }

MkCall(r, b) == [buf |-> b, alias |-> r.alias, items |-> r.items]

\* the handler rebinds its list: writer calls still holding the old list keep it
Detach(cl, b, old) ==
    [t \in Tasks |->
        IF cl[t].buf = b /\ cl[t].alias
        THEN [cl[t] EXCEPT !.alias = FALSE, !.items = old]
        ELSE cl[t]]

(***************************************************************************)
(* History bookkeeping shared by the actions.                              *)
(*   begT, begItems: the task that started a writer call and its argument  *)
(*   didRaise, raised: a writer call raised, with these records            *)
(*   ret: buffers whose flush() returned with no append since it started   *)
(*   apps: the buffers appended to                                         *)
(***************************************************************************)
Hist(begT, begItems, didRaise, raised, ret, apps) ==
    /\ UNCHANGED << shutdown, atShutdown, bvars >>
    /\ shutCnt' = [r \in Records |->
                     IF shutdown /\ r \in Range(begItems)
                     THEN (IF shutCnt[r] < 2 THEN shutCnt[r] + 1 ELSE 2)
                     ELSE shutCnt[r]]
    /\ shutFail' = (shutFail \/ (shutdown /\ didRaise))
    /\ finalHanded' = finalHanded \cup
                        (IF begT = "flush" /\ shutdown THEN Range(begItems) ELSE {})
    /\ failed' = failed \cup raised
    /\ clean' = [b \in Buffers |->
                    IF b \in apps THEN FALSE ELSE IF b \in ret THEN TRUE ELSE clean[b]]

\* a step that starts no writer call, ends none and appends nothing
Quiet == Hist("none", << >>, FALSE, {}, {}, {})

NoFlush(bf) == [buf |-> bf, started |-> FALSE, alias |-> FALSE, items |-> << >>]

\* the size check that ends every append operation
SizeFlush(b, bf, hs) ==
    IF Len(bf[b]) >= BatchMaxSize THEN SyncFlush(b, bf, hs) ELSE NoFlush(bf)

\* a writer call of task t ends (ok: it returned, else it raised): what the
\* handler's code after the await does to the buffers and the other calls
WriterEnd(t, ok) ==
    LET c == call[t]
        b == c.buf
        bf1 == IF b \in TradeLike
               THEN IF ok THEN TradeLikeAfterOk(b, buf) ELSE TradeLikeAfterRaise(b, buf)
               ELSE buf
        cl0 == [call EXCEPT ![t] = NoCall]
    IN  [buf |-> bf1,
         call |-> IF bf1 # buf THEN Detach(cl0, b, buf[b]) ELSE cl0,
         raised |-> IF ok THEN {} ELSE Range(View(c, buf)),
         ret |-> IF Late(c, buf) = {} THEN {b} ELSE {}]

Init ==
    /\ mainPc = "start"
    /\ mainCont = "none"
    /\ flushPc = "created"
    /\ snapPc = "none"
    /\ metrics = "created"
    /\ storage = "None"
    /\ hstorage = FALSE
    /\ buf = [b \in Buffers |-> << >>]
    /\ call = [t \in Tasks |-> NoCall]
    /\ passIdx = [t \in {"main", "flush"} |-> 0]
    /\ passLog = [t \in {"main", "flush"} |-> << >>]
    /\ book = [exists |-> FALSE, valid |-> FALSE, depth |-> 0]
    /\ nextId = 1
    /\ pending = 0
    /\ closeCalls = 0
    /\ shutdown = FALSE
    /\ atShutdown = {}
    /\ shutCnt = [r \in Records |-> 0]
    /\ shutFail = FALSE
    /\ finalHanded = {}
    /\ failed = {}
    /\ clean = [b \in Buffers |-> FALSE]
    /\ BookInit

(***************************************************************************)
(* The supervisor and the session manager (one task).                      *)
(***************************************************************************)

\* main up to its first suspension: the metrics task and the scheduler are
\* created and take their first step (start_http_server, whose outcome
\* nothing reads before main awaits the task; the scheduler sleeps);
\* run_forever constructs the writer (the constructor may
\* raise: "Working without storage") and awaits connect(), or goes on to
\* start the materializer and to open the connection.
Start ==
    /\ mainPc = "start"
    /\ \E ctorOk \in BOOLEAN :
          /\ metrics' = "started"
          /\ storage' = IF ctorOk THEN "set" ELSE "None"
          /\ mainPc' = IF ctorOk THEN "connect" ELSE "streaming"
          /\ snapPc' = IF ctorOk THEN "none" ELSE "sleep"
    /\ flushPc' = "sleep"
    /\ UNCHANGED << mainCont, hstorage, data >>
    /\ Quiet

\* storage.connect() returns or raises; then start_periodic_snapshots()
ConnectDone ==
    /\ mainPc = "connect"
    /\ \E ok \in BOOLEAN :
          /\ hstorage' = ok
          /\ storage' = IF ok THEN "set" ELSE "None"
    /\ snapPc' = "sleep"
    /\ mainPc' = "streaming"
    /\ UNCHANGED << mainCont, flushPc, metrics, data >>
    /\ Quiet

\* the tail of an append operation of the read loop: recs were appended to b
MainAppend(b, recs, bf0) ==
    LET bf1 == [bf0 EXCEPT ![b] = @ \o recs]
        r == SizeFlush(b, bf1, hstorage)
    IN  /\ buf' = r.buf
        /\ call' = IF r.started THEN [call EXCEPT !["main"] = MkCall(r, b)] ELSE call
        /\ mainPc' = IF r.started THEN "writing" ELSE "streaming"
        /\ mainCont' = IF r.started THEN "return" ELSE "none"

\* on_trade, on_funding_rate, on_mark_price, on_ticker, on_open_interest on a
\* frame whose data array has k elements
OnRecords(b, k) ==
    /\ mainPc = "streaming"
    /\ nextId + k - 1 <= MaxRecords
    /\ LET recs == Fresh(nextId, k)
           r == SizeFlush(b, [buf EXCEPT ![b] = @ \o recs], hstorage)
       IN  /\ MainAppend(b, recs, buf)
           /\ Hist(IF r.started THEN "main" ELSE "none", r.items, FALSE, {}, {}, {b})
    /\ nextId' = nextId + k
    /\ UNCHANGED << flushPc, snapPc, metrics, storage, hstorage, passIdx, passLog,
                    book, pending, closeCalls >>

\* on_snapshot on a frame with one data element whose book has d rows
OnSnapshot(d) ==
    /\ mainPc = "streaming"
    /\ nextId + d <= MaxRecords + 1
    /\ LET b == "batch_snapshots"
           recs == Fresh(nextId, d)
           r == SizeFlush(b, [buf EXCEPT ![b] = @ \o recs], hstorage)
       IN  /\ MainAppend(b, recs, buf)
           /\ Hist(IF r.started THEN "main" ELSE "none", r.items, FALSE, {}, {},
                   IF d = 0 THEN {} ELSE {b})
    /\ book' = [exists |-> TRUE, valid |-> TRUE, depth |-> d]
    /\ nextId' = nextId + d
    /\ UNCHANGED << flushPc, snapPc, metrics, storage, hstorage, passIdx, passLog,
                    pending, closeCalls >>


\* book.reset()
ResetBook == [exists |-> TRUE, valid |-> FALSE, depth |-> 0]

\* on_increment on a frame with one data element.  gap: apply_updates reports
\* a sequence mismatch; d: rows of the book after the delta's levels were
\* applied.  A book that is not valid is left alone.
OnIncrement(gap, d) ==
    /\ mainPc = "streaming"
    /\ book.valid \/ (~gap /\ d = book.depth)
    /\ nextId + (IF gap THEN d ELSE 0) <= MaxRecords
    /\ LET sb == "batch_snapshots"
           ub == "batch_updates"
           rows == Fresh(nextId, IF gap THEN d ELSE 0)
           upd == nextId + Len(rows)
           \* _generate_snapshot_for_instrument
           g == IF rows # << >>
                THEN SizeFlush(sb, [buf EXCEPT ![sb] = @ \o rows], hstorage)
                ELSE NoFlush(buf)
           clS == call
           appS == IF rows = << >> THEN {} ELSE {sb}
           u == SizeFlush(ub, [g.buf EXCEPT ![ub] = @ \o << upd >>], hstorage)
           clU == clS
       IN  IF g.started
           THEN \* suspended in _flush_snapshots; reset and append come after
                /\ buf' = g.buf
                /\ call' = [clS EXCEPT !["main"] = MkCall(g, sb)]
                /\ mainPc' = "writing"
                /\ mainCont' = "gap"
                /\ pending' = upd
                /\ book' = [exists |-> TRUE, valid |-> TRUE, depth |-> d]
                /\ Hist("main", g.items, FALSE, {}, {}, appS)
           ELSE /\ buf' = u.buf
                /\ call' = IF u.started THEN [clU EXCEPT !["main"] = MkCall(u, ub)]
                           ELSE clU
                /\ mainPc' = IF u.started THEN "writing" ELSE "streaming"
                /\ mainCont' = IF u.started THEN "return" ELSE "none"
                /\ pending' = 0
                /\ book' = IF gap THEN ResetBook
                           ELSE [exists |-> TRUE, valid |-> book.valid, depth |-> d]
                /\ Hist(IF u.started THEN "main" ELSE "none", u.items, FALSE, {}, {},
                        appS \cup {ub})
    /\ nextId' = nextId + (IF gap THEN d ELSE 0) + 1
    /\ UNCHANGED << flushPc, snapPc, metrics, storage, hstorage, passIdx, passLog,
                    closeCalls >>

\* the writer call of a size-triggered flush ends and the append operation returns
MainWriteReturn(ok) ==
    /\ mainPc = "writing"
    /\ mainCont = "return"
    /\ LET e == WriterEnd("main", ok)
       IN  /\ buf' = e.buf
           /\ call' = e.call
           /\ Hist("none", << >>, ~ok, e.raised, {}, {})
    /\ mainPc' = "streaming"
    /\ mainCont' = "none"
    /\ UNCHANGED << flushPc, snapPc, metrics, storage, hstorage, passIdx, passLog,
                    book, nextId, pending, closeCalls >>

\* on_increment goes on after the gap's snapshot flush: reset, resubscribe
\* callback (a log line), append the delta record, size check
MainGapResume(ok) ==
    /\ mainPc = "writing"
    /\ mainCont = "gap"
    /\ LET ub == "batch_updates"
           e == WriterEnd("main", ok)
           u == SizeFlush(ub, [e.buf EXCEPT ![ub] = @ \o << pending >>], hstorage)
           clU == e.call
       IN  /\ buf' = u.buf
           /\ call' = IF u.started THEN [clU EXCEPT !["main"] = MkCall(u, ub)] ELSE clU
           /\ mainPc' = IF u.started THEN "writing" ELSE "streaming"
           /\ mainCont' = IF u.started THEN "return" ELSE "none"
           /\ Hist(IF u.started THEN "main" ELSE "none", u.items, ~ok, e.raised, {},
                   {ub})
    /\ book' = ResetBook
    /\ pending' = 0
    /\ UNCHANGED << flushPc, snapPc, metrics, storage, hstorage, passIdx, passLog,
                    nextId, closeCalls >>

\* _run_once raises: run_forever calls on_reconnect (a row-set of the valid
\* book, then _flush_snapshots) and sleeps the backoff delay
WsError ==
    /\ mainPc = "streaming"
    /\ LET n == IF book.valid THEN book.depth ELSE 0
           sb == "batch_snapshots"
           rows == Fresh(nextId, n)
           r == SyncFlush(sb, [buf EXCEPT ![sb] = @ \o rows], hstorage)
           cl1 == call
       IN  /\ nextId + n <= MaxRecords + 1
           /\ buf' = r.buf
           /\ call' = IF r.started THEN [cl1 EXCEPT !["main"] = MkCall(r, sb)] ELSE cl1
           /\ mainPc' = IF r.started THEN "writing" ELSE "backoff"
           /\ mainCont' = IF r.started THEN "reconnect" ELSE "none"
           /\ nextId' = nextId + n
           /\ Hist(IF r.started THEN "main" ELSE "none", r.items, FALSE, {}, {},
                   IF rows = << >> THEN {} ELSE {sb})
    /\ UNCHANGED << flushPc, snapPc, metrics, storage, hstorage, passIdx, passLog,
                    book, pending, closeCalls >>

MainReconnectResume(ok) ==
    /\ mainPc = "writing"
    /\ mainCont = "reconnect"
    /\ LET e == WriterEnd("main", ok)
       IN  /\ buf' = e.buf
           /\ call' = e.call
           /\ Hist("none", << >>, ~ok, e.raised, {}, {})
    /\ mainPc' = "backoff"
    /\ mainCont' = "none"
    /\ UNCHANGED << flushPc, snapPc, metrics, storage, hstorage, passIdx, passLog,
                    book, nextId, pending, closeCalls >>

\* asyncio.sleep(delay) of run_forever returns
BackoffDone ==
    /\ mainPc = "backoff"
    /\ mainPc' = "streaming"
    /\ UNCHANGED << mainCont, flushPc, snapPc, metrics, storage, hstorage, data >>
    /\ Quiet

(***************************************************************************)
(* flush_all_handlers, run by the scheduler and by the supervisor.         *)
(***************************************************************************)

\* task t runs its pass from position i over buffers bf until it suspends
PassRun(t, i, bf, cl, log) ==
    LET r == RunPass(i, bf, hstorage)
    IN  /\ buf' = r.buf
        /\ call' = IF r.started THEN [cl EXCEPT ![t] = MkCall(r, FlushSeq[r.idx])]
                   ELSE cl
        /\ passIdx' = [passIdx EXCEPT ![t] = r.idx]
        /\ passLog' = [passLog EXCEPT ![t] = log \o Invoked(i, r.idx)]

\* the writer call of task t's pass ends and the pass goes on
PassResume(t, ok) ==
    LET e == WriterEnd(t, ok)
        i == IF ok THEN PassAfterOk(passIdx[t]) ELSE PassAfterRaise(passIdx[t])
        r == RunPass(i, e.buf, hstorage)
    IN  /\ PassRun(t, i, e.buf, e.call, passLog[t])
        /\ Hist(IF r.started THEN t ELSE "none", r.items, ~ok, e.raised,
                e.ret \cup Returned(i, r.idx), {})

\* periodic_flush: sleep(5.0) returns, flush_all_handlers starts
FlushTick ==
    /\ flushPc = "sleep"
    /\ LET r == RunPass(1, buf, hstorage)
       IN  /\ PassRun("flush", 1, buf, call, << >>)
           /\ flushPc' = IF r.started THEN "writing" ELSE "sleep"
           /\ Hist(IF r.started THEN "flush" ELSE "none", r.items, FALSE, {},
                   Returned(1, r.idx), {})
    /\ UNCHANGED << mainPc, mainCont, snapPc, metrics, storage, hstorage, book,
                    nextId, pending, closeCalls >>

\* periodic_flush: a writer call of the pass (regular or final) ends
FlushPassResume(ok) ==
    /\ flushPc \in {"writing", "final"}
    /\ LET r == RunPass(IF ok THEN PassAfterOk(passIdx["flush"])
                        ELSE PassAfterRaise(passIdx["flush"]),
                        WriterEnd("flush", ok).buf, hstorage)
       IN  flushPc' = IF r.started THEN flushPc
                      ELSE IF flushPc = "writing" THEN "sleep" ELSE "exit"
    /\ PassResume("flush", ok)
    /\ UNCHANGED << mainPc, mainCont, snapPc, metrics, storage, hstorage, book,
                    nextId, pending, closeCalls >>

\* periodic_flush: except CancelledError: the final flush_all_handlers, break
FlushFinal ==
    /\ flushPc = "cancelled"
    /\ LET r == RunPass(1, buf, hstorage)
       IN  /\ PassRun("flush", 1, buf, call, << >>)
           /\ flushPc' = IF r.started THEN "final" ELSE "exit"
           /\ Hist(IF r.started THEN "flush" ELSE "none", r.items, FALSE, {},
                   Returned(1, r.idx), {})
    /\ UNCHANGED << mainPc, mainCont, snapPc, metrics, storage, hstorage, book,
                    nextId, pending, closeCalls >>


(***************************************************************************)
(* periodic_snapshots, the periodic book materializer.                     *)
(***************************************************************************)

\* sleep(snapshot_interval_sec) returns: a row-set of the valid book is
\* appended and, as rows were generated, _flush_snapshots runs.  A tick that
\* generates no rows changes nothing.
SnapTick ==
    /\ snapPc = "sleep"
    /\ mainPc \notin {"done", "crashed"}
    /\ book.valid
    /\ book.depth > 0
    /\ nextId + book.depth <= MaxRecords + 1
    /\ LET sb == "batch_snapshots"
           rows == Fresh(nextId, book.depth)
           r == SyncFlush(sb, [buf EXCEPT ![sb] = @ \o rows], hstorage)
           cl1 == call
       IN  /\ buf' = r.buf
           /\ call' = IF r.started THEN [cl1 EXCEPT !["snap"] = MkCall(r, sb)] ELSE cl1
           /\ snapPc' = IF r.started THEN "writing" ELSE "sleep"
           /\ Hist(IF r.started THEN "snap" ELSE "none", r.items, FALSE, {}, {}, {sb})
    /\ nextId' = nextId + book.depth
    /\ UNCHANGED << mainPc, mainCont, flushPc, metrics, storage, hstorage, passIdx,
                    passLog, book, pending, closeCalls >>

SnapWriteReturn(ok) ==
    /\ snapPc = "writing"
    /\ LET e == WriterEnd("snap", ok)
       IN  /\ buf' = e.buf
           /\ call' = e.call
           /\ Hist("none", << >>, ~ok, e.raised, {}, {})
    /\ snapPc' = "sleep"
    /\ UNCHANGED << mainPc, mainCont, flushPc, metrics, storage, hstorage, passIdx,
                    passLog, book, nextId, pending, closeCalls >>

(***************************************************************************)
(* Shutdown: main's finally block.                                         *)
(***************************************************************************)

\* The main task is cancelled at the await it is suspended in (connect, the
\* socket read, a writer call of the read loop, the backoff sleep).  The
\* CancelledError passes every `except Exception`; the finally block calls
\* flush_task.cancel(), which cancels the await the scheduler is suspended
\* in (its sleep or a writer call), and awaits the task.
Signal ==
    /\ mainPc \in {"connect", "streaming", "writing", "backoff"}
    /\ mainPc' = "await_flush"
    /\ mainCont' = "none"
    /\ pending' = 0
    /\ flushPc' = "cancelled"
    /\ call' = [call EXCEPT !["main"] = NoCall, !["flush"] = NoCall]
    /\ shutdown' = TRUE
    /\ atShutdown' = AllBuffered(buf)
    /\ UNCHANGED << snapPc, metrics, storage, hstorage, buf, passIdx, passLog, book,
                    nextId, closeCalls, shutCnt, shutFail, finalHanded, failed,
                    clean, bvars >>

\* `await flush_task` returns; the defensive flush_all_handlers starts
MainDefensive ==
    /\ mainPc = "await_flush"
    /\ flushPc = "exit"
    /\ LET r == RunPass(1, buf, hstorage)
       IN  /\ PassRun("main", 1, buf, call, << >>)
           /\ mainPc' = IF r.started THEN "defensive" ELSE "await_metrics"
           /\ Hist(IF r.started THEN "main" ELSE "none", r.items, FALSE, {},
                   Returned(1, r.idx), {})
    /\ UNCHANGED << mainCont, flushPc, snapPc, metrics, storage, hstorage, book,
                    nextId, pending, closeCalls >>

\* a writer call of the defensive pass ends; after the pass metrics_task is
\* cancelled and awaited
MainPassResume(ok) ==
    /\ mainPc = "defensive"
    /\ LET r == RunPass(IF ok THEN PassAfterOk(passIdx["main"])
                        ELSE PassAfterRaise(passIdx["main"]),
                        WriterEnd("main", ok).buf, hstorage)
       IN  mainPc' = IF r.started THEN "defensive" ELSE "await_metrics"
    /\ PassResume("main", ok)
    /\ UNCHANGED << mainCont, flushPc, snapPc, metrics, storage, hstorage, book,
                    nextId, pending, closeCalls >>

\* `await metrics_task`: a cancelled task raises CancelledError, which is
\* caught; a task that had failed raises its own exception, which leaves
\* main.  Then `if client.storage: await client.storage.close()`.
MetricsAwait ==
    /\ mainPc = "await_metrics"
    /\ \E mOk \in BOOLEAN :
          IF ~mOk
          THEN \* start_http_server had raised (the port is taken)
               /\ metrics' = "failed"
               /\ mainPc' = "crashed"
               /\ UNCHANGED closeCalls
          ELSE /\ metrics' = "cancelled"
               /\ mainPc' = IF storage = "set" THEN "closing" ELSE "done"
               /\ closeCalls' = IF storage = "set" THEN closeCalls + 1 ELSE closeCalls
    /\ UNCHANGED << mainCont, flushPc, snapPc, storage, hstorage, buf, call, passIdx,
                    passLog, book, nextId, pending >>
    /\ Quiet

\* storage.close() returns
CloseDone ==
    /\ mainPc = "closing"
    /\ mainPc' = "done"
    /\ UNCHANGED << mainCont, flushPc, snapPc, metrics, storage, hstorage, data >>
    /\ Quiet

Next ==
    \/ Start
    \/ ConnectDone
    \/ \E b \in Channels, k \in 1..MaxFrame : OnRecords(b, k)
    \/ \E d \in 0..MaxDepth : OnSnapshot(d)
    \/ \E gap \in BOOLEAN, d \in 0..MaxDepth : OnIncrement(gap, d)
    \/ \E ok \in BOOLEAN : MainWriteReturn(ok)
    \/ \E ok \in BOOLEAN : MainGapResume(ok)
    \/ WsError
    \/ \E ok \in BOOLEAN : MainReconnectResume(ok)
    \/ BackoffDone
    \/ FlushTick
    \/ \E ok \in BOOLEAN : FlushPassResume(ok)
    \/ FlushFinal
    \/ SnapTick
    \/ \E ok \in BOOLEAN : SnapWriteReturn(ok)
    \/ Signal
    \/ MainDefensive
    \/ \E ok \in BOOLEAN : MainPassResume(ok)
    \/ MetricsAwait
    \/ CloseDone

Spec == Init /\ [][Next]_vars

TypeOK ==
    /\ mainPc \in {"start", "connect", "streaming", "writing", "backoff",
                   "await_flush", "defensive", "await_metrics", "closing", "done",
                   "crashed"}
    /\ flushPc \in {"created", "sleep", "writing", "cancelled", "final", "exit"}
    /\ snapPc \in {"none", "sleep", "writing"}
    /\ \A b \in Buffers : Range(buf[b]) \subseteq Records
    /\ \A t \in Tasks : call[t].buf \in Buffers \cup {"none"}
    /\ nextId \in 1..(MaxRecords + 1)

(***************************************************************************)
(* The order-book engine, OrderBookL2.  Prices and sizes are the strings   *)
(* of the frame; the engine keys its levels by the price string and        *)
(* compares and sorts by float().                                          *)
(***************************************************************************)

MaxLevels == 2       \* levels in one side's list of a frame
MaxSeq == 2          \* sequence ids of the frames

PriceStrs == {"1", "1.0", "2"}
SizeStrs == {"-1", "0", "1", "2"}

\* float(s) of the strings above
Float(s) ==
    CASE s = "1" -> 1
      [] s = "1.0" -> 1
      [] s = "2" -> 2
      [] s = "0" -> 0
      [] s = "-1" -> -1

SeqIds == 1..MaxSeq
OptSeqIds == { << n >> : n \in SeqIds } \cup {None}

\* `if size_float > 0`
KeepsLevel_NonZero(size) == Float(size) # 0

KeepsLevel(size) == Float(size) > 0

\* OrderedDict: `k in d`, `d[k] = v` (a present key keeps its place, a new
\* one goes last), `d.pop(k, None)`, `d.clear()`
HasKey(d, k) == \E i \in 1..Len(d) : d[i][1] = k

DictSet(d, k, v) ==
    IF HasKey(d, k)
    THEN [i \in 1..Len(d) |-> IF d[i][1] = k THEN << k, v >> ELSE d[i]]
    ELSE Append(d, << k, v >>)

DictPop(d, k) == SelectSeq(d, LAMBDA it : it[1] # k)

\* the mutant leaves the items in place
DictClear_Keep(d) == d

DictClear(d) == << >>

\* the level loop of apply_snapshot over one side: size 0 is ignored
RECURSIVE SnapshotLevels(_, _)
SnapshotLevels(d, lv) ==
    IF lv = << >> THEN d
    ELSE SnapshotLevels(IF KeepsLevel(Head(lv)[2])
                        THEN DictSet(d, Head(lv)[1], Head(lv)[2])
                        ELSE d,
                        Tail(lv))

\* the level loop of apply_updates over one side
RECURSIVE UpdateLevels(_, _)
UpdateLevels(d, lv) ==
    IF lv = << >> THEN d
    ELSE UpdateLevels(IF KeepsLevel(Head(lv)[2])
                      THEN DictSet(d, Head(lv)[1], Head(lv)[2])
                      ELSE DictPop(d, Head(lv)[1]),
                      Tail(lv))

\* sorted(d.items(), key=lambda x: float(x[0]), reverse=desc): a stable sort,
\* items with equal keys keep their order
Precedes(a, b, desc) ==
    IF desc THEN Float(a[1]) > Float(b[1]) ELSE Float(a[1]) < Float(b[1])

RECURSIVE InsertSorted(_, _, _)
InsertSorted(s, it, desc) ==
    IF s = << >> THEN << it >>
    ELSE IF Precedes(it, Head(s), desc) THEN << it >> \o s
    ELSE << Head(s) >> \o InsertSorted(Tail(s), it, desc)

RECURSIVE SortItems(_, _)
SortItems(d, desc) ==
    IF d = << >> THEN << >>
    ELSE InsertSorted(SortItems(SubSeq(d, 1, Len(d) - 1), desc), d[Len(d)], desc)

\* the book object as a value
Book == [bids |-> bids, asks |-> asks, seq_id |-> seq_id, valid |-> is_valid]

NewBook == [bids |-> << >>, asks |-> << >>, seq_id |-> None, valid |-> FALSE]

SetBook(b) ==
    /\ bids' = b.bids
    /\ asks' = b.asks
    /\ seq_id' = b.seq_id
    /\ is_valid' = b.valid

\* apply_snapshot on a well-formed frame f = [bids, asks, seqId]; returns True
apply_snapshot(b, f) ==
    [bids |-> SortItems(SnapshotLevels(DictClear(b.bids), f.bids), TRUE),
     asks |-> SortItems(SnapshotLevels(DictClear(b.asks), f.asks), FALSE),
     seq_id |-> f.seqId,
     valid |-> TRUE]

\* the second component of apply_updates' result
checksum_ok(b, f) ==
    ~(b.seq_id # None /\ f.prevSeqId # None /\ f.prevSeqId # b.seq_id)

\* apply_updates on a well-formed frame f = [bids, asks, seqId, prevSeqId];
\* returns (True, checksum_ok(b, f))
apply_updates(b, f) ==
    [bids |-> SortItems(UpdateLevels(b.bids, f.bids), TRUE),
     asks |-> SortItems(UpdateLevels(b.asks, f.asks), FALSE),
     seq_id |-> IF f.seqId # None THEN f.seqId ELSE b.seq_id,
     valid |-> b.valid]

reset(b) ==
    [bids |-> DictClear(b.bids), asks |-> DictClear(b.asks), seq_id |-> None,
     valid |-> FALSE]

(* Frames of the engine's specification.  A frame either carries levels    *)
(* (up to MaxLevels bids over every price string, at most one ask, the     *)
(* negative size among the asks) with the first sequence id, or carries    *)
(* sequence ids and no level.                                              *)
BidLevels == PriceStrs \X (SizeStrs \ {"-1"})
AskLevels == {"1", "2"} \X {"-1", "1"}

LevelLists == UNION { [1..n -> BidLevels] : n \in 0..MaxLevels }
AskLists == UNION { [1..n -> AskLevels] : n \in 0..1 }

SnapshotFrames ==
    [bids : LevelLists, asks : AskLists, seqId : { << 1 >> }]
        \cup [bids : { << >> }, asks : { << >> }, seqId : OptSeqIds]

UpdateFrames ==
    [bids : LevelLists, asks : AskLists, seqId : { << 1 >> }, prevSeqId : {None}]
        \cup [bids : { << >> }, asks : { << >> }, seqId : OptSeqIds,
              prevSeqId : OptSeqIds]

L2ApplySnapshot(f) ==
    /\ SetBook(apply_snapshot(Book, f))
    /\ UNCHANGED << ctl, data, hist, xvars, hvars >>

L2ApplyUpdates(f) ==
    /\ SetBook(apply_updates(Book, f))
    /\ UNCHANGED << ctl, data, hist, xvars, hvars >>

L2Reset ==
    /\ SetBook(reset(Book))
    /\ UNCHANGED << ctl, data, hist, xvars, hvars >>

NextL2 ==
    \/ \E f \in SnapshotFrames : L2ApplySnapshot(f)
    \/ \E f \in UpdateFrames : L2ApplyUpdates(f)
    \/ L2Reset

\* any sequence of apply_snapshot, apply_updates and reset on a new book
SpecL2 == Init /\ [][NextL2]_vars

(***************************************************************************)
(* The order-book handler and the loop of run_forever, for one instrument. *)
(* The engine is the one above.  Of the batchers this part keeps the       *)
(* length of batch_snapshots, which decides whether the gap path awaits a  *)
(* writer call; an append is recorded as an event of the operation.  The   *)
(* writer calls themselves and shutdown are the subject of Spec.           *)
(***************************************************************************)

MaxData == 2         \* elements in the data array of a books frame

\* elements of update frames: an upsert or an erase of the bid "1", a seqId,
\* and a prevSeqId that is absent or 1
DeltaElems ==
    [bids : { << << "1", "1" >> >>, << << "1", "0" >> >> }, asks : { << >> },
     seqId : { << n >> : n \in SeqIds }, prevSeqId : {None, << 1 >>}]

\* elements of snapshot frames
SnapElems ==
    { [bids |-> << >>, asks |-> << >>, seqId |-> None],
      [bids |-> << << "1", "1" >> >>, asks |-> << >>, seqId |-> << 1 >>],
      [bids |-> << << "1", "1" >>, << "2", "2" >> >>, asks |-> << << "2", "1" >> >>,
       seqId |-> << MaxSeq >>] }

\* msg["data"] of the frames of the books channel
UpdateMsgs == UNION { [1..n -> DeltaElems] : n \in 0..MaxData }
SnapshotMsgs == UNION { [1..n -> SnapElems] : n \in 0..MaxData }

\* `limit = max_levels or self.max_depth`; the handler passes its max_depth,
\* which is also the max_depth of its books
Limit(k) == IF k = 0 THEN MaxDepth ELSE k

\* the rows of one side: (snapshot_id, ts_event_ms, side, price, size, level)
\* of its first levels
SideRows(s, t, side, d, limit) ==
    [i \in 1..(IF Len(d) < limit THEN Len(d) ELSE limit) |->
        << s, t, side, Float(d[i][1]), Float(d[i][2]), i >>]

\* to_snapshot_rows(snapshot_id = s, ts_event_ms = t, max_levels = k)
to_snapshot_rows(b, s, t, k) ==
    IF ~b.valid THEN << >>
    ELSE SideRows(s, t, 1, b.bids, Limit(k)) \o SideRows(s, t, 2, b.asks, Limit(k))

\* the rows _generate_snapshot_for_instrument appends for the book.  What the
\* snapshot ids and timestamps are plays no part for the handler: they are 0
\* here and in its other calls.
generate_rows(b) == IF ~b.valid THEN << >> ELSE to_snapshot_rows(b, 0, 0, MaxDepth)

\* `if len(self.batch_snapshots) >= self.batch_max_size: await self._flush_snapshots()`
\* leaves a new, empty list
FlushIfFull(n) == IF n >= BatchMaxSize THEN 0 ELSE n

\* the element loop of on_snapshot
RECURSIVE SnapLoop(_, _, _, _)
SnapLoop(b, es, log, n) ==
    IF es = << >> THEN [book |-> b, log |-> log, n |-> n]
    ELSE LET nb == apply_snapshot(b, Head(es))
             rows == to_snapshot_rows(nb, 0, 0, MaxDepth)
         IN  SnapLoop(nb, Tail(es),
                      log \o << "snapshot" >>
                          \o (IF rows # << >> THEN << "rows" >> ELSE << >>),
                      n + Len(rows))

\* `if book.is_valid():` before apply_updates
AppliesDelta_Always(b) == TRUE

AppliesDelta(b) == b.valid

\* "Still save the update": the delta record is appended to batch_updates
SaveUpdate_ValidOnly(b, log) == IF b.valid THEN Append(log, "delta") ELSE log

SaveUpdate(b, log) == Append(log, "delta")

\* the book the gap path materializes: the call precedes book.reset()
GapRows_AfterReset(nb) == generate_rows(reset(nb))

GapRows(nb) == generate_rows(nb)

\* _resubscribe_orderbook logs the request; nothing is sent
resubscribe_orderbook(sent) == sent

(* The element loop of on_increment from the book b over the elements es,   *)
(* until the loop ends or the gap path awaits a writer call (susp).  log:   *)
(* the events so far; sets: the row-sets appended; n: len(batch_snapshots); *)
(* hs: the handler has a writer.                                            *)
RECURSIVE IncrLoop(_, _, _, _, _, _)
RECURSIVE GapTail(_, _, _, _, _, _)

\* after _generate_snapshot_for_instrument: book.reset(), the resubscribe
\* callback, the delta record, and the rest of the loop
GapTail(nb, es, log, sets, n, hs) ==
    IncrLoop(reset(nb), Tail(es),
             SaveUpdate(reset(nb), log \o << "reset", "resub" >>), sets, n, hs)

IncrLoop(b, es, log, sets, n, hs) ==
    IF es = << >>
    THEN [book |-> b, todo |-> << >>, log |-> log, sets |-> sets, n |-> n,
          susp |-> FALSE]
    ELSE IF ~AppliesDelta(b)
    THEN IncrLoop(b, Tail(es), SaveUpdate(b, log), sets, n, hs)
    ELSE LET nb == apply_updates(b, Head(es))
             log1 == Append(log, "apply")
             rows == GapRows(nb)
         IN  IF checksum_ok(b, Head(es))
             THEN IncrLoop(nb, Tail(es), SaveUpdate(nb, log1), sets, n, hs)
             ELSE IF rows = << >>
             THEN GapTail(nb, es, log1, sets, n, hs)
             ELSE IF n + Len(rows) < BatchMaxSize
             THEN GapTail(nb, es, Append(log1, "rows"), Append(sets, rows),
                          n + Len(rows), hs)
             ELSE IF ~hs
             THEN GapTail(nb, es, Append(log1, "rows"), Append(sets, rows), 0, hs)
             ELSE [book |-> nb, todo |-> es, log |-> Append(log1, "rows"),
                   sets |-> Append(sets, rows), n |-> 0, susp |-> TRUE]

\* on_increment over es run to its end, through the await of the gap path
IncrRun(b, es, n, hs) ==
    LET h == IncrLoop(b, es, << >>, << >>, n, hs)
    IN  IF h.susp THEN GapTail(h.book, h.todo, h.log, h.sets, h.n, hs) ELSE h

\* the read loop of _run_once is between two frames
Reading == mainPc = "streaming" /\ conn = "streaming" /\ hpc = "idle"

\* on_snapshot on a frame whose data array is es
OnSnapshotMsg(es) ==
    /\ Reading
    /\ LET r == SnapLoop(Book, es, << >>, nSnap)
       IN  /\ SetBook(r.book)
           /\ nSnap' = IF es = << >> THEN nSnap ELSE FlushIfFull(r.n)
           /\ evt' = [kind |-> "snapshot", len |-> Len(es), log |-> r.log]
    /\ hasBook' = (hasBook \/ es # << >>)
    /\ UNCHANGED << ctl, data, hist, xvars, conn, hpc, todo, wsSent >>

\* on_increment on a frame whose data array is es, until it returns or
\* awaits the writer call of the gap path
OnIncrementMsg(es) ==
    /\ Reading
    /\ LET r == IncrLoop(Book, es, << >>, << >>, nSnap, hstorage)
       IN  /\ SetBook(r.book)
           /\ nSnap' = r.n
           /\ hpc' = IF r.susp THEN "gap" ELSE "idle"
           /\ todo' = r.todo
           /\ evt' = [kind |-> "update", len |-> Len(es), log |-> r.log]
           /\ wsSent' = IF \E i \in 1..Len(r.log) : r.log[i] = "resub"
                        THEN resubscribe_orderbook(wsSent) ELSE wsSent
    /\ hasBook' = (hasBook \/ es # << >>)
    /\ UNCHANGED << ctl, data, hist, xvars, conn >>

\* write_orderbook_snapshots of the gap path returns or raises (the raise is
\* caught in _flush_snapshots); on_increment goes on to its end
GapResume ==
    /\ mainPc = "streaming"
    /\ hpc = "gap"
    /\ LET r == GapTail(Book, todo, evt.log, << >>, nSnap, hstorage)
       IN  /\ SetBook(r.book)
           /\ nSnap' = r.n
           /\ hpc' = IF r.susp THEN "gap" ELSE "idle"
           /\ todo' = r.todo
           /\ evt' = [evt EXCEPT !.log = r.log]
           /\ wsSent' = resubscribe_orderbook(wsSent)
    /\ UNCHANGED << ctl, data, hist, xvars, hasBook, conn >>

\* periodic_snapshots: sleep returns; the valid book is materialized and, as
\* rows were generated, the snapshot batch is flushed
PeriodicTick ==
    /\ mainPc = "streaming"
    /\ hasBook
    /\ LET rows == IF is_valid THEN to_snapshot_rows(Book, 0, 0, MaxDepth) ELSE << >>
       IN  nSnap' = IF rows # << >> THEN 0 ELSE FlushIfFull(nSnap)
    /\ UNCHANGED << ctl, data, hist, xvars, bids, asks, seq_id, is_valid, hasBook, conn, hpc,
                    todo, wsSent, evt >>

\* on_reconnect: _generate_snapshot_for_instrument for every book, then
\* _flush_snapshots.  No book is reset.
on_reconnect ==
    /\ LET rows == IF hasBook THEN generate_rows(Book) ELSE << >>
       IN  evt' = [kind |-> "reconnect", len |-> 0,
                   log |-> IF rows # << >> THEN << "rows" >> ELSE << >>]
    /\ nSnap' = 0
    /\ UNCHANGED << bids, asks, seq_id, is_valid, hasBook >>

\* _run_once raises (ws_connect fails, or the read loop gets an ERROR frame or
\* a transport error): the reconnect hook runs and the backoff sleep starts
WsFail ==
    /\ mainPc = "streaming"
    /\ conn \in {"connecting", "streaming"}
    /\ hpc = "idle"
    /\ on_reconnect
    /\ conn' = "backoff"
    /\ wsSent' = << >>
    /\ UNCHANGED << ctl, data, hist, xvars, hpc, todo >>

\* the server closes the connection: `async for msg in ws` ends, _run_once
\* returns and the loop calls it again at once
WsClosed ==
    /\ Reading
    /\ conn' = "connecting"
    /\ wsSent' = << >>
    /\ UNCHANGED << ctl, data, hist, xvars, bids, asks, seq_id, is_valid, hasBook, nSnap,
                    hpc, todo, evt >>

\* asyncio.sleep(delay) returns
BackoffOver ==
    /\ mainPc = "streaming"
    /\ conn = "backoff"
    /\ conn' = "connecting"
    /\ UNCHANGED << ctl, data, hist, xvars, bids, asks, seq_id, is_valid, hasBook, nSnap,
                    hpc, todo, wsSent, evt >>

\* ws_connect succeeds and the subscribe frame is sent
WsConnect ==
    /\ mainPc = "streaming"
    /\ conn = "connecting"
    /\ conn' = "streaming"
    /\ wsSent' = << "subscribe" >>
    /\ UNCHANGED << ctl, data, hist, xvars, bids, asks, seq_id, is_valid, hasBook, nSnap,
                    hpc, todo, evt >>

NextBook ==
    \/ Start
    \/ ConnectDone
    \/ WsConnect
    \/ \E es \in SnapshotMsgs : OnSnapshotMsg(es)
    \/ \E es \in UpdateMsgs : OnIncrementMsg(es)
    \/ GapResume
    \/ PeriodicTick
    \/ WsFail
    \/ WsClosed
    \/ BackoffOver

SpecBook == Init /\ [][NextBook]_vars

(***************************************************************************)
(* The order-book handler over all its instruments: which rows, under      *)
(* which snapshot_id, its operations append to batch_snapshots.  The books *)
(* are values of the engine above; the timestamp of every row is 0.        *)
(***************************************************************************)

MaxUuid == 4         \* calls of uuid.uuid4()

\* settings.INSTRUMENTS
Insts == {"BTC-USDT-SWAP", "ETH-USDT-SWAP"}

\* `d[k]` for a key that is present
DictGet(d, k) == d[CHOOSE i \in 1..Len(d) : d[i][1] = k][2]

\* str(uuid.uuid4()) of the call after u calls: an id no earlier call gave
uuid4_Stale(u) == u

uuid4(u) == u + 1

\* the book of inst, or the new book the handler creates for it
GetOrCreate(bks, inst) == IF HasKey(bks, inst) THEN DictGet(bks, inst) ELSE NewBook

\* the rows are appended (`if rows: extend`) and the size check follows:
\* _flush_snapshots hands the list over and leaves a new one
ExtendAndCheck(bt, rows, wr) ==
    IF Len(bt \o rows) >= BatchMaxSize
    THEN [batch |-> << >>, written |-> bt \o rows]
    ELSE [batch |-> bt \o rows, written |-> wr]

\* on_snapshot on a frame for inst whose data array holds the element e
on_snapshot(inst, e) ==
    /\ uuids < MaxUuid
    /\ LET nb == apply_snapshot(GetOrCreate(books, inst), e)
           rows == to_snapshot_rows(nb, uuid4(uuids), 0, MaxDepth)
           r == ExtendAndCheck(batch_snapshots, rows, batch_to_write)
       IN  /\ books' = DictSet(books, inst, nb)
           /\ batch_snapshots' = r.batch
           /\ batch_to_write' = r.written
    /\ uuids' = uuids + 1

\* apply_snapshot on the element e when it raises: "element" when e is no
\* object (snapshot_data.get raises before the sides are cleared), "ts" when
\* the levels of e are well-formed and its ts is no number (int() raises after
\* the sort).  `except Exception` sets _is_valid = False and returns False.
FailKinds == {"element", "ts"}

apply_snapshot_failed(b, e, kind) ==
    IF kind = "element" THEN [b EXCEPT !.valid = FALSE]
    ELSE [bids |-> SortItems(SnapshotLevels(DictClear(b.bids), e.bids), TRUE),
          asks |-> SortItems(SnapshotLevels(DictClear(b.asks), e.asks), FALSE),
          seq_id |-> b.seq_id,
          valid |-> FALSE]

\* on_snapshot when apply_snapshot returns False: a warning, no row
on_snapshot_failed(inst, e, kind) ==
    /\ books' = DictSet(books, inst, apply_snapshot_failed(GetOrCreate(books, inst), e, kind))
    /\ UNCHANGED << batch_snapshots, batch_to_write, uuids >>

TickOnSnapshot(inst, e) ==
    /\ on_snapshot(inst, e)
    /\ UNCHANGED << ctl, data, hist, bids, asks, seq_id, is_valid, hvars, pvars, wvars, mvars >>

\* on_increment on a frame for inst whose data array holds the element e
on_increment(inst, e) ==
    /\ uuids < MaxUuid
    /\ LET b == GetOrCreate(books, inst)
           nb == apply_updates(b, e)
           rows == to_snapshot_rows(nb, uuid4(uuids), 0, MaxDepth)
           r == IF rows = << >>
                THEN [batch |-> batch_snapshots, written |-> batch_to_write]
                ELSE ExtendAndCheck(batch_snapshots, rows, batch_to_write)
       IN  IF ~AppliesDelta(b)
           THEN /\ books' = DictSet(books, inst, b)
                /\ UNCHANGED << batch_snapshots, batch_to_write, uuids >>
           ELSE IF checksum_ok(b, e)
           THEN /\ books' = DictSet(books, inst, nb)
                /\ UNCHANGED << batch_snapshots, batch_to_write, uuids >>
           ELSE /\ books' = DictSet(books, inst, reset(nb))
                /\ batch_snapshots' = r.batch
                /\ batch_to_write' = r.written
                /\ uuids' = uuids + 1

TickOnIncrement(inst, e) ==
    /\ on_increment(inst, e)
    /\ UNCHANGED << ctl, data, hist, bids, asks, seq_id, is_valid, hvars, pvars, wvars, mvars >>

(* The loop of periodic_snapshots over books.items() from item i: bt the    *)
(* batch, u the calls of uuid4, g generated_count.                          *)
RECURSIVE PeriodicLoop(_, _, _, _, _)
PeriodicLoop(bks, i, bt, u, g) ==
    IF i > Len(bks) THEN [batch |-> bt, uuids |-> u, generated |-> g]
    ELSE IF ~bks[i][2].valid THEN PeriodicLoop(bks, i + 1, bt, u, g)
    ELSE LET rows == to_snapshot_rows(bks[i][2], uuid4(u), 0, MaxDepth)
         IN  IF rows = << >> THEN PeriodicLoop(bks, i + 1, bt, u + 1, g)
             ELSE PeriodicLoop(bks, i + 1, bt \o rows, u + 1, g + 1)

\* books that are valid: each costs one call of uuid4
ValidBooks(bks) == { i \in 1..Len(bks) : bks[i][2].valid }

\* periodic_snapshots: sleep returns, the loop runs, and the batch is flushed
\* if it is full or a row-set was generated
periodic_snapshots ==
    /\ books # << >>
    /\ uuids + Cardinality(ValidBooks(books)) <= MaxUuid
    /\ UNCHANGED books
    /\ LET r == PeriodicLoop(books, 1, batch_snapshots, uuids, 0)
           flush == \/ Len(r.batch) >= BatchMaxSize
                    \/ Len(r.batch) > 0 /\ r.generated > 0
       IN  /\ uuids' = r.uuids
           /\ batch_snapshots' = IF flush THEN << >> ELSE r.batch
           /\ batch_to_write' = IF flush THEN r.batch ELSE batch_to_write

TickPeriodic ==
    /\ periodic_snapshots
    /\ UNCHANGED << ctl, data, hist, bids, asks, seq_id, is_valid, hvars, pvars, wvars, mvars >>

NextTick ==
    \/ \E inst \in Insts : \E e \in SnapElems : TickOnSnapshot(inst, e)
    \/ \E inst \in Insts : \E e \in DeltaElems : TickOnIncrement(inst, e)
    \/ TickPeriodic

SpecTick == Init /\ [][NextTick]_vars

(***************************************************************************)
(* The order-book handler with snapshots that fail (SpecFail): the calls of *)
(* SpecTick on the snapshot elements of at most one level, with the call    *)
(* made last in fnArg and what apply_snapshot returned in fnRet.            *)
(***************************************************************************)
FailSnapElems == { e \in SnapElems : Len(e.bids) <= 1 }

FailOnSnapshot(inst, e) ==
    /\ on_snapshot(inst, e)
    /\ fnArg' = [fn |-> "on_snapshot", inst |-> inst]
    /\ fnRet' = TRUE
    /\ UNCHANGED << ctl, data, hist, bids, asks, seq_id, is_valid, hvars, wvars, mvars >>

FailOnSnapshotFails(inst, e, kind) ==
    /\ on_snapshot_failed(inst, e, kind)
    /\ fnArg' = [fn |-> "on_snapshot", inst |-> inst]
    /\ fnRet' = FALSE
    /\ UNCHANGED << ctl, data, hist, bids, asks, seq_id, is_valid, hvars, wvars, mvars >>

FailOnIncrement(inst, e) ==
    /\ on_increment(inst, e)
    /\ fnArg' = [fn |-> "on_increment", inst |-> inst]
    /\ fnRet' = None
    /\ UNCHANGED << ctl, data, hist, bids, asks, seq_id, is_valid, hvars, wvars, mvars >>

FailPeriodic ==
    /\ periodic_snapshots
    /\ fnArg' = [fn |-> "periodic_snapshots", inst |-> ""]
    /\ fnRet' = None
    /\ UNCHANGED << ctl, data, hist, bids, asks, seq_id, is_valid, hvars, wvars, mvars >>

NextFail ==
    \/ \E inst \in Insts : \E e \in FailSnapElems : FailOnSnapshot(inst, e)
    \/ \E inst \in Insts : \E e \in FailSnapElems : \E kind \in FailKinds :
           FailOnSnapshotFails(inst, e, kind)
    \/ \E inst \in Insts : \E e \in DeltaElems : FailOnIncrement(inst, e)
    \/ FailPeriodic

SpecFail == Init /\ [][NextFail]_vars

(***************************************************************************)
(* The session manager: connect, subscribe, read, and on an exception the  *)
(* reconnect hook, the attempt counter and the backoff sleep.  The frames  *)
(* read here are frames without `arg`, which no handler takes, so that the *)
(* handler's books stay as they are.                                       *)
(***************************************************************************)

BackoffBase == 1     \* settings.BACKOFF_BASE = 0.5 s
BackoffCap == 60     \* settings.BACKOFF_CAP = 30.0 s
FloatMaxExp == 1024  \* float(2 ** n) raises OverflowError from n = 1024 on

\* settings.CHANNELS and settings.INSTRUMENTS, in order
CHANNELS ==
    << "trades", "funding-rate", "mark-price", "tickers", "open-interest", "books" >>
INSTRUMENTS == << "BTC-USDT-SWAP", "ETH-USDT-SWAP" >>

Min(a, b) == IF a < b THEN a ELSE b

\* min(c, 2 ** n) without the large number: p = 2 ** i is doubled up to i = n
\* and no further than c
RECURSIVE Pow2Up(_, _, _, _)
Pow2Up(i, n, p, c) ==
    IF i = n \/ p >= c THEN Min(c, p) ELSE Pow2Up(i + 1, n, 2 * p, c)

Pow2Capped(n, c) == Pow2Up(0, n, 1, c)

\* `exp` of full_jitter_delay: None when `base * (2 ** attempt)` raises, the
\* int being too large to convert to float
full_jitter_exp(base, cap, n) ==
    IF n >= FloatMaxExp THEN None ELSE << Min(cap, base * Pow2Capped(n, cap)) >>

\* the values random.uniform(0, exp) returns
Uniform(e) == 0..e

\* the args of the subscribe frame: one per channel and instrument, the
\* channels in the outer loop
sub_args_FirstInst(chs, insts) == [i \in 1..Len(chs) |-> << chs[i], insts[1] >>]
sub_args(chs, insts) ==
    [i \in 1..(Len(chs) * Len(insts)) |->
        << chs[((i - 1) \div Len(insts)) + 1], insts[((i - 1) % Len(insts)) + 1] >>]

_sub_payload == [op |-> "subscribe", args |-> sub_args(CHANNELS, INSTRUMENTS)]

(* on_reconnect over list(books.keys()) from item i: every valid book is   *)
(* materialized and the batch flushed when full; at the end the batch is   *)
(* flushed.  bt the batch, u the calls of uuid4, wr the list last written. *)
RECURSIVE ReconnectLoop(_, _, _, _, _)
ReconnectLoop(bks, i, bt, u, wr) ==
    IF i > Len(bks)
    THEN [batch |-> << >>, uuids |-> u, written |-> IF bt = << >> THEN wr ELSE bt]
    ELSE IF ~bks[i][2].valid THEN ReconnectLoop(bks, i + 1, bt, u, wr)
    ELSE LET rows == to_snapshot_rows(bks[i][2], uuid4(u), 0, MaxDepth)
             r == ExtendAndCheck(bt, rows, wr)
         IN  IF rows = << >> THEN ReconnectLoop(bks, i + 1, bt, u + 1, wr)
             ELSE ReconnectLoop(bks, i + 1, r.batch, u + 1, r.written)

\* orderbook_handler.on_reconnect()
ReconnectHook ==
    LET r == ReconnectLoop(books, 1, batch_snapshots, uuids, batch_to_write)
    IN  /\ batch_snapshots' = r.batch
        /\ batch_to_write' = r.written
        /\ uuids' = r.uuids
        /\ UNCHANGED books

\* session.ws_connect succeeds
WsOpen ==
    /\ wpc = "connect"
    /\ wpc' = "subscribe"
    /\ gotFrame' = FALSE
    /\ wsOut' = << >>
    /\ wlog' = Append(wlog, "connect")
    /\ UNCHANGED << ctl, data, hist, bids, asks, seq_id, is_valid, hvars, pvars, tvars, mvars,
                    attempt, delay, hookErr >>

\* ws.send_json(sub_payload) succeeds
WsSubscribe ==
    /\ wpc = "subscribe"
    /\ wpc' = "read"
    /\ wsOut' = Append(wsOut, _sub_payload)
    /\ wlog' = Append(wlog, "subscribe")
    /\ UNCHANGED << ctl, data, hist, bids, asks, seq_id, is_valid, hvars, pvars, tvars, mvars,
                    attempt, delay, gotFrame, hookErr >>

\* the read loop gets a TEXT frame without `arg`; _on_message calls no handler
WsFrame ==
    /\ wpc = "read"
    /\ gotFrame' = TRUE
    /\ UNCHANGED << ctl, data, hist, bids, asks, seq_id, is_valid, hvars, pvars, tvars, mvars,
                    attempt, wpc, delay, wsOut, wlog, hookErr >>

\* the read loop ends (the server closed): _run_once returns, _attempt = 0 and
\* the loop calls _run_once again
RunOnceReturns ==
    /\ wpc = "read"
    /\ attempt' = 0
    /\ wpc' = "connect"
    /\ wlog' = << >>
    /\ UNCHANGED << ctl, data, hist, bids, asks, seq_id, is_valid, hvars, pvars, tvars, mvars,
                    delay, gotFrame, wsOut, hookErr >>

\* _run_once raises an Exception (ws_connect or send_json fails, an ERROR
\* frame, a transport error): the hook, the counter, the delay, the sleep.
\* When full_jitter_delay raises, the exception leaves run_forever.
\* on_reconnect returns (a writer failure of its flush is caught in
\* _flush_snapshots) or raises before it has changed the batch; run_forever
\* catches and logs what it raises.
RunOnceRaises ==
    /\ wpc \in {"connect", "subscribe", "read"}
    /\ \/ ReconnectHook /\ hookErr' = FALSE
       \/ UNCHANGED tvars /\ hookErr' = TRUE
    /\ attempt' = attempt + 1
    /\ LET e == full_jitter_exp(BackoffBase, BackoffCap, attempt + 1)
       IN  IF e = None
           THEN /\ wpc' = "raised"
                /\ delay' = None
                /\ wlog' = << "hook", "attempt" >>
           ELSE /\ wpc' = "sleep"
                /\ \E d \in Uniform(e[1]) : delay' = << d >>
                /\ wlog' = << "hook", "attempt", "delay", "sleep" >>
    /\ UNCHANGED << ctl, data, hist, bids, asks, seq_id, is_valid, hvars, pvars, mvars,
                    gotFrame, wsOut >>

\* asyncio.sleep(delay) returns
SleepOver ==
    /\ wpc = "sleep"
    /\ wpc' = "connect"
    /\ delay' = None
    /\ UNCHANGED << ctl, data, hist, bids, asks, seq_id, is_valid, hvars, pvars, tvars, mvars,
                    attempt, gotFrame, wsOut, wlog, hookErr >>

NextWs ==
    \/ WsOpen
    \/ WsSubscribe
    \/ WsFrame
    \/ RunOnceReturns
    \/ RunOnceRaises
    \/ SleepOver

SpecWs == Init /\ [][NextWs]_vars

\* the timer of asyncio.sleep fires
FairWs == SpecWs /\ WF_vars(SleepOver)

(***************************************************************************)
(* The dispatch of the frames the read loop gets: _on_message and the      *)
(* handler method it calls, for frames of the first configured instrument. *)
(* A writer call a handler makes returns.                                  *)
(***************************************************************************)

\* the channels _on_message passes to the order-book handler
BookChannels == {"books", "books-l2-tbt", "books50-l2-tbt", "books5"}

\* the batch of the handler of a channel that is neither a book channel nor
\* unknown
BatchOf(channel) ==
    CASE channel = "trades" -> "trades"
      [] channel = "funding-rate" -> "funding_rate"
      [] channel = "mark-price" -> "mark_price"
      [] channel = "tickers" -> "tickers"
      [] channel = "open-interest" -> "open_interest"

\* data elements of book frames: those of snapshots with a level, without
\* prevSeqId, and deltas
MsgElems ==
    { [bids |-> e.bids, asks |-> e.asks, seqId |-> e.seqId, prevSeqId |-> None] :
          e \in { x \in SnapElems : x.bids # << >> } }
        \cup { e \in DeltaElems : e.seqId = << 1 >> /\ e.prevSeqId = << 1 >> }

\* `arg` of the frames: the first configured instrument and a channel that is
\* absent, empty, configured, or not configured
MsgArgs ==
    { << [channel |-> c, instId |-> << INSTRUMENTS[1] >>] >> :
          c \in { << ch >> : ch \in Range(CHANNELS) \cup {"books5", "bbo-tbt", ""} }
                    \cup {None} }

BookArgs ==
    { x \in MsgArgs : x[1].channel # None /\ x[1].channel[1] \in BookChannels }

\* the frames read: one without `arg`; frames of the other channels without
\* data, and trades frames with one record; book frames with every kind of
\* `action`
MsgFrames ==
    { [arg |-> None, action |-> None, data |-> << >>] }
        \cup { [arg |-> a, action |-> None, data |-> << >>] : a \in MsgArgs \ BookArgs }
        \cup { [arg |-> a, action |-> None, data |-> << [instId |-> INSTRUMENTS[1]] >>] :
                  a \in { x \in MsgArgs : x[1].channel = << "trades" >> } }
        \cup { [arg |-> a, action |-> act, data |-> << e >>] :
                  a \in BookArgs,
                  act \in {None, << "snapshot" >>, << "update" >>, << "other" >>},
                  e \in MsgElems }

\* arg.get("channel", "unknown") and arg.get("instId", "unknown") with
\* arg = data.get("arg", {})
ChannelOf(m) ==
    IF m.arg = None THEN "unknown"
    ELSE IF m.arg[1].channel = None THEN "unknown" ELSE m.arg[1].channel[1]

InstOf(m) ==
    IF m.arg = None THEN "unknown"
    ELSE IF m.arg[1].instId = None THEN "unknown" ELSE m.arg[1].instId[1]

\* data.get("action", "snapshot")
ActionOf(m) == IF m.action = None THEN "snapshot" ELSE m.action[1]

\* the handler method _on_message calls for the frame, None if none
Route_UnknownAsTrades(m) ==
    IF ChannelOf(m) \in BookChannels THEN << "on_snapshot" >> ELSE << "on_trade" >>

Route_AbsentAsUpdate(m) ==
    IF ChannelOf(m) \notin BookChannels THEN None
    ELSE IF m.action = << "snapshot" >> THEN << "on_snapshot" >>
    ELSE << "on_increment" >>

Route(m) ==
    LET channel == ChannelOf(m)
        inst == InstOf(m)
        action == ActionOf(m)
    IN  IF channel = "" \/ inst = "" THEN None
        ELSE IF channel = "trades" THEN << "on_trade" >>
        ELSE IF channel \in BookChannels
        THEN IF action = "snapshot" THEN << "on_snapshot" >>
             ELSE IF action = "update" THEN << "on_increment" >>
             ELSE << "on_snapshot" >>
        ELSE IF channel = "funding-rate" THEN << "on_funding_rate" >>
        ELSE IF channel = "mark-price" THEN << "on_mark_price" >>
        ELSE IF channel = "tickers" THEN << "on_ticker" >>
        ELSE IF channel = "open-interest" THEN << "on_open_interest" >>
        ELSE None

\* a handler appends k records to its batch b and flushes the batch when it
\* has reached batch_max_size
AppendAndCheck(hb, b, k) ==
    [hb EXCEPT ![b] = IF @ + k >= BatchMaxSize THEN 0 ELSE @ + k]

\* _on_message(m) with the handler call it awaits
OnMessage(m) ==
    /\ wpc = "read"
    /\ frame' = m
    /\ gotFrame' = TRUE
    /\ handled' = Route(m)
    /\ IF Route(m) = None \/ m.data = << >>
       THEN UNCHANGED << tvars, hbuf >>
       ELSE IF Route(m) = << "on_snapshot" >>
       THEN on_snapshot(InstOf(m), m.data[1]) /\ UNCHANGED hbuf
       ELSE IF Route(m) = << "on_increment" >>
       THEN /\ on_increment(InstOf(m), m.data[1])
            /\ hbuf' = AppendAndCheck(hbuf, "batch_updates", Len(m.data))
       ELSE /\ hbuf' = AppendAndCheck(hbuf, BatchOf(ChannelOf(m)), Len(m.data))
            /\ UNCHANGED tvars
    /\ UNCHANGED << ctl, data, hist, bids, asks, seq_id, is_valid, hvars, pvars,
                    attempt, wpc, delay, wsOut, wlog, hookErr >>

NextMsg ==
    \/ WsOpen
    \/ WsSubscribe
    \/ \E m \in MsgFrames : OnMessage(m)

SpecMsg == Init /\ [][NextMsg]_vars

(***************************************************************************)
(* The trade handler, _parse_levels and apply_updates on raw input          *)
(* (SpecParse): fields of a data element may be absent or unparsable, an    *)
(* element may be no object, a level may be malformed.  A field is None     *)
(* when absent and << s >> when it holds the string s.                      *)
(***************************************************************************)

\* int(s) and float(s) return; on every other string they raise ValueError
IsInt(s) == s \in {"0", "1", "2", "-1"}
IsFloat(s) == s \in {"0", "1", "1.0", "2", "-1"}

\* elements of the data array of a trades frame: objects with the fields ts
\* and px, and one element that is no object
FieldVals == {None, << "1" >>, << "x" >>}
NotAnObject == [isDict |-> FALSE, ts |-> None, px |-> None]
TradeElems ==
    [isDict : {TRUE}, ts : FieldVals \ {None}, px : FieldVals] \cup {NotAnObject}
TradeData == UNION { [1..n -> TradeElems] : n \in 0..MaxFrame }

\* trades frames; in the last one `data` is a number
TradeFrames ==
    [arg : { << [channel |-> "trades", instId |-> INSTRUMENTS[1]] >> },
     action : {None}, isList : {TRUE}, data : TradeData]
        \cup { [arg |-> << [channel |-> "trades", instId |-> INSTRUMENTS[1]] >>,
                action |-> None, isList |-> FALSE, data |-> << >>] }

\* what the body of _process_trade's try block raises on the element e
ProcessTradeRaises(e) ==
    IF ~e.isDict THEN << "AttributeError" >>
    ELSE IF e.ts # None /\ ~IsInt(e.ts[1]) THEN << "ValueError" >>
    ELSE IF e.px # None /\ ~IsFloat(e.px[1]) THEN << "ValueError" >>
    ELSE None

\* _process_trade: the record, or None when `except (ValueError, TypeError)`
\* caught what the body raised; every other exception propagates
_process_trade(e) ==
    LET x == ProcessTradeRaises(e)
    IN  IF x = None
        THEN [exc |-> None,
              rec |-> << [ts_event_ms |-> IF e.ts = None THEN 0 ELSE Float(e.ts[1]),
                          px |-> IF e.px = None THEN 0 ELSE Float(e.px[1])] >>]
        ELSE IF x[1] \in {"ValueError", "TypeError"}
        THEN [exc |-> None, rec |-> None]
        ELSE [exc |-> x, rec |-> None]

\* the loop of on_trade over data from element i: the records appended, and
\* the exception that ended the loop
RECURSIVE TradeLoop(_, _, _)
TradeLoop(d, i, recs) ==
    IF i > Len(d) THEN [recs |-> recs, exc |-> None]
    ELSE LET r == _process_trade(d[i])
         IN  IF r.exc # None THEN [recs |-> recs, exc |-> r.exc]
             ELSE TradeLoop(d, i + 1, recs \o r.rec)

\* the mutant's clause is `except (ValueError, TypeError)`
OnTradeCatches_ValueOnly(exc) == exc \in {"ValueError", "TypeError"}

\* `except Exception` of on_trade
OnTradeCatches(exc) == TRUE

\* on_trade on a batch of n records: the records appended, the length of the
\* batch afterwards (_flush_batch clears it when the writer returns and
\* keeps it when the writer raises), the exception logged and the one that
\* leaves the handler
on_trade(d, n, writerOk) ==
    LET r == TradeLoop(d, 1, << >>)
        m == n + Len(r.recs)
    IN  IF r.exc # None
        THEN [appended |-> r.recs, batch |-> m,
              logged |-> IF OnTradeCatches(r.exc[1]) THEN r.exc ELSE None,
              escaped |-> IF OnTradeCatches(r.exc[1]) THEN None ELSE r.exc,
              flush |-> "none"]
        ELSE IF d = << >> \/ m < BatchMaxSize
        THEN [appended |-> r.recs, batch |-> m, logged |-> None, escaped |-> None,
              flush |-> "none"]
        ELSE [appended |-> r.recs, batch |-> IF writerOk THEN 0 ELSE m,
              logged |-> None, escaped |-> None,
              flush |-> IF writerOk THEN "written" ELSE "failed"]

\* the read loop gets a trades frame: _on_message raises TypeError on
\* len(data) when `data` is no list, else it awaits on_trade; an exception
\* that leaves the handler leaves _run_once
ReadTrade(m, writerOk) ==
    /\ wpc = "read"
    /\ hbuf.trades + Len(m.data) <= 2 * BatchMaxSize
    /\ frame' = m
    /\ fnArg' = [fn |-> "on_trade", data |-> m.data]
    /\ IF ~m.isList
       THEN /\ handled' = None
            /\ fnRet' = None
            /\ wpc' = "failed"
            /\ UNCHANGED hbuf
       ELSE LET r == on_trade(m.data, hbuf.trades, writerOk)
            IN  /\ handled' = << "on_trade" >>
                /\ fnRet' = r
                /\ hbuf' = [hbuf EXCEPT !.trades = r.batch]
                /\ wpc' = IF r.escaped = None THEN "read" ELSE "failed"
    /\ gotFrame' = TRUE
    /\ UNCHANGED << ctl, data, hist, bids, asks, seq_id, is_valid, hvars, tvars,
                    attempt, delay, wsOut, wlog, hookErr >>

\* levels as they come in a frame: a list of fields, or something else
NotAList == [isList |-> FALSE, f |-> << >>]
RawLevels ==
    { [isList |-> TRUE, f |-> x] :
          x \in { << "1" >>, << "1", "1" >>, << "1", "0" >>, << "2", "1" >>,
                  << "x", "1" >>, << "1", "x" >> } } \cup {NotAList}
RawLevelLists == UNION { [1..n -> RawLevels] : n \in 0..MaxLevels }
MaxLevelsArgs == { << k >> : k \in 0..MaxLevels } \cup {None}

\* _parse_levels from level i, res the levels appended (count = Len(res))
RECURSIVE ParseLoop(_, _, _, _)
ParseLoop(lv, i, max_levels, res) ==
    IF i > Len(lv) THEN res
    ELSE IF ~lv[i].isList \/ Len(lv[i].f) < 2 THEN ParseLoop(lv, i + 1, max_levels, res)
    ELSE IF max_levels # None /\ max_levels[1] # 0 /\ Len(res) >= max_levels[1] THEN res
    ELSE IF ~IsFloat(lv[i].f[1]) \/ ~IsFloat(lv[i].f[2])
    THEN ParseLoop(lv, i + 1, max_levels, res)
    ELSE ParseLoop(lv, i + 1, max_levels,
                   Append(res, [price |-> lv[i].f[1], size |-> lv[i].f[2]]))

_parse_levels(lv, max_levels) == ParseLoop(lv, 1, max_levels, << >>)

\* The calls of _parse_levels and apply_updates (SpecRaw).  The functions
\* keep nothing between calls: a behaviour makes one call.
ParseLevelsCall(lv, k) ==
    /\ fnArg.fn = "none"
    /\ fnArg' = [fn |-> "_parse_levels", levels |-> lv, max_levels |-> k]
    /\ fnRet' = _parse_levels(lv, k)
    /\ UNCHANGED << ctl, data, hist, bids, asks, seq_id, is_valid, hvars, tvars, wvars,
                    mvars >>

\* the level loop of apply_updates over one side of a raw frame: the size is
\* converted, the price is not
RECURSIVE UpdateRawLevels(_, _)
UpdateRawLevels(d, lv) ==
    IF lv = << >> THEN d
    ELSE LET l == Head(lv)
         IN  IF ~l.isList \/ Len(l.f) < 2 \/ ~IsFloat(l.f[2])
             THEN UpdateRawLevels(d, Tail(lv))
             ELSE UpdateRawLevels(IF KeepsLevel(l.f[2]) THEN DictSet(d, l.f[1], l.f[2])
                                  ELSE DictPop(d, l.f[1]),
                                  Tail(lv))

\* sorted(d.items(), key=lambda x: float(x[0])) raises ValueError
SortRaises(d) == \E i \in 1..Len(d) : ~IsFloat(d[i][1])

\* apply_updates on a frame f whose bids are raw levels: the book it leaves
\* and the pair it returns.  When the sort of the bids raises, the sides stay
\* as the loops left them and `except Exception` returns (False, False).
apply_updates_raw(b, f) ==
    LET bd == UpdateRawLevels(b.bids, f.bids)
        ad == UpdateLevels(b.asks, f.asks)
    IN  IF SortRaises(bd)
        THEN [book |-> [bids |-> bd, asks |-> ad, seq_id |-> b.seq_id, valid |-> b.valid],
              success |-> FALSE, checksum_ok |-> FALSE]
        ELSE [book |-> [bids |-> SortItems(bd, TRUE), asks |-> SortItems(ad, FALSE),
                        seq_id |-> IF f.seqId # None THEN f.seqId ELSE b.seq_id,
                        valid |-> b.valid],
              success |-> TRUE, checksum_ok |-> checksum_ok(b, f)]

\* the books and the frames apply_updates is called with
RawBooks == { apply_snapshot(NewBook, e) : e \in SnapElems }
RawUpdateFrames ==
    [bids : RawLevelLists, asks : { << >> }, seqId : { << MaxSeq >> },
     prevSeqId : {None, << 1 >>, << MaxSeq >>}]

ApplyUpdatesCall(b, f) ==
    /\ fnArg.fn = "none"
    /\ fnArg' = [fn |-> "apply_updates", book |-> b, frame |-> f]
    /\ fnRet' = apply_updates_raw(b, f)
    /\ UNCHANGED << ctl, data, hist, bids, asks, seq_id, is_valid, hvars, tvars, wvars,
                    mvars >>

NextParse ==
    \/ WsOpen
    \/ WsSubscribe
    \/ \E m \in TradeFrames : \E writerOk \in BOOLEAN : ReadTrade(m, writerOk)

SpecParse == Init /\ [][NextParse]_vars

NextRaw ==
    \/ \E lv \in RawLevelLists : \E k \in MaxLevelsArgs : ParseLevelsCall(lv, k)
    \/ \E b \in RawBooks : \E f \in RawUpdateFrames : ApplyUpdatesCall(b, f)

SpecRaw == Init /\ [][NextRaw]_vars

(***************************************************************************)
(* Properties.                                                             *)
(***************************************************************************)

\* the step in which the supervisor and the scheduler are cancelled
CancelStep == shutdown' /\ ~shutdown

\* task t's writer call ends in this step
CallEnds(t) == call[t].buf # "none" /\ call'[t].buf # call[t].buf

\* task t starts a writer call in this step
CallStarts(t) == call'[t].buf # "none" /\ call'[t].buf # call[t].buf

\* task t is inside a flush_all_handlers pass
InPass(t) ==
    \/ t = "flush" /\ flushPc \in {"writing", "final"}
    \/ t = "main" /\ mainPc = "defensive"

\* C1: once storage.close() has been called, every record that was in a
\* buffer when shutdown began has been handed to exactly one writer call
\* started during shutdown and every buffer is empty, provided no writer call
\* raised during shutdown.
C1_ShutdownDrain ==
    (closeCalls = 1 /\ ~shutFail) =>
        /\ \A r \in atShutdown : shutCnt[r] = 1
        /\ \A b \in Buffers : buf[b] = << >>

C1_Witness ==
    /\ mainPc = "done"
    /\ closeCalls = 1
    /\ ~shutFail
    /\ Cardinality(atShutdown) >= 3
    /\ \A r \in atShutdown : shutCnt[r] = 1

\* the records of buffer b held by the writer calls in flight
Carried(cl, bf, b) ==
    UNION { Range(View(cl[t], bf)) : t \in { u \in Tasks : cl[u].buf = b } }

\* C2: when a writer call returns or raises, every record appended to the
\* call's buffer while the call was in flight is not discarded: unless a
\* writer call carrying it has raised, it is still in that buffer, or in the
\* list of a writer call in flight.
C2_SwapThenWrite ==
    [][\A t \in Tasks :
          (CallEnds(t) /\ ~CancelStep) =>
              (Late(call[t], buf) \ failed') \subseteq
                  Range(buf'[call[t].buf]) \cup Carried(call', buf', call[t].buf)]_vars

\* C3: when the cancelled scheduler has exited, it has run one complete pass
\* over every handler and every record that was in a buffer when it was
\* cancelled has been handed to a writer call by that pass.
C3_FinalPass ==
    (flushPc = "exit" /\ hstorage) =>
        /\ passIdx["flush"] = PassEnd
        /\ passLog["flush"] = HandlerOrder
        /\ atShutdown \subseteq finalHanded

\* C4: when a writer call of a pass ends (it returned or raised), so that the
\* handler's flush() returns, and nothing was appended to the buffer while
\* the call was in flight, the buffer is empty.
C4_FlushEmpties ==
    [][\A t \in {"main", "flush"} :
          (InPass(t) /\ CallEnds(t) /\ ~CancelStep /\ Late(call[t], buf) = {}) =>
              buf'[call[t].buf] = << >>]_vars

\* C5: no writer call starts with an argument holding a record of a batch
\* whose writer call raised.
C5_NoRetry ==
    [][\A t \in Tasks :
          CallStarts(t) => Range(call'[t].items) \cap failed = {}]_vars

\* C6: a pass starts no writer call on a buffer whose previous flush() has
\* returned with nothing appended to the buffer since: the second of two
\* consecutive flush() calls makes no writer call.
C6_Idempotent ==
    [][\A t \in {"main", "flush"} :
          (CallStarts(t) /\ InPass(t)') => ~clean[call'[t].buf]]_vars

\* C7: whenever the read loop is between two append operations, every
\* buffer holds at most batch_max_size records.
C7_Bounded ==
    mainPc = "streaming" => \A b \in Buffers : Len(buf[b]) <= BatchMaxSize

C9_NoInterrupt ==
    [][CancelStep => \A t \in {"main", "flush"} : call'[t] = call[t]]_vars

\* C10: when main has ended on a path on which a writer was constructed,
\* storage.close() has been called exactly once; it is called only after the
\* scheduler has exited and the defensive pass has returned.
C10_CloseOnce ==
    /\ (mainPc \in {"done", "crashed"} /\ storage = "set") => closeCalls = 1
    /\ closeCalls <= 1
    /\ closeCalls = 1 => (flushPc = "exit" /\ passIdx["main"] = PassEnd)

\* C11: after the defensive flush pass, with the session manager and the
\* scheduler exited, and until writer close has ended, no task appends a
\* record to a buffer and no task starts a writer call.
C11_NoEnqueue ==
    [][(mainPc \in {"await_metrics", "closing"} /\ flushPc = "exit") =>
          /\ nextId' = nextId
          /\ \A t \in Tasks : ~CallStarts(t)]_vars

\* C12: a flush pass run by a collector without a writer leaves the trades
\* batch empty.
C12_NoStorageFlush ==
    [][(~hstorage /\ (FlushTick \/ MainDefensive)) => buf'["trades"] = << >>]_vars

(***************************************************************************)
(* Properties of the order-book handler.                                   *)
(***************************************************************************)

\* occurrences of the event x in a log
Count(x, log) == Cardinality({ i \in 1..Len(log) : log[i] = x })

C15_InvalidBook ==
    [][(~is_valid /\ ~is_valid') =>
          /\ nSnap' <= nSnap
          /\ bids' = bids
          /\ asks' = asks
          /\ (evt' # evt => Count("rows", evt'.log) = 0)]_vars

\* a delta was handled for a book that is not valid
C15_Witness ==
    /\ hasBook
    /\ ~is_valid
    /\ hpc = "idle"
    /\ evt.kind = "update"
    /\ evt.len = 1
    /\ evt.log = << "delta" >>
    /\ conn = "streaming"

\* a resubscribe is requested in this step
ResubRequested ==
    /\ hpc = "gap" \/ evt' # evt
    /\ evt'.kind = "update"
    /\ Count("resub", evt'.log) > (IF hpc = "gap" THEN Count("resub", evt.log) ELSE 0)

\* C16: a resubscribe requested while the connection is streaming sends an
\* unsubscribe frame and then a subscribe frame on the connection.
C16_Resubscribe ==
    [][(conn = "streaming" /\ ResubRequested) =>
          wsSent' = wsSent \o << "unsubscribe", "subscribe" >>]_vars

\* C17: once the reconnect hook has run after a lost connection, the book is
\* not valid.
C17_ResetOnReconnect == conn = "backoff" => ~is_valid

(***************************************************************************)
(* Properties of the order-book engine.                                    *)
(***************************************************************************)

\* the levels of a side at numeric price v
LevelsAt(side, v) == SelectSeq(side, LAMBDA it : Float(it[1]) = v)

PriceVals == { Float(p) : p \in PriceStrs }

\* C18: every stored bid and ask level has size > 0, after any sequence of
\* apply_snapshot, apply_updates and reset.
C18_PositiveSizes ==
    /\ \A i \in 1..Len(bids) : Float(bids[i][2]) > 0
    /\ \A i \in 1..Len(asks) : Float(asks[i][2]) > 0

\* a book with levels on both sides from which a delta removes a bid with
\* size 0 and an ask with a negative size, and to which a snapshot with a
\* size-0 level adds nothing
C18_Witness ==
    /\ bids # << >>
    /\ asks # << >>
    /\ \E f \in UpdateFrames :
          /\ f.bids # << >> /\ Float(f.bids[1][2]) = 0 /\ HasKey(bids, f.bids[1][1])
          /\ f.asks # << >> /\ Float(f.asks[1][2]) < 0 /\ HasKey(asks, f.asks[1][1])
          /\ ~HasKey(apply_updates(Book, f).bids, f.bids[1][1])
          /\ ~HasKey(apply_updates(Book, f).asks, f.asks[1][1])
    /\ \E f \in SnapshotFrames :
          /\ Len(f.bids) = 1 /\ Float(f.bids[1][2]) = 0
          /\ apply_snapshot(Book, f).bids = << >>

\* C19: the bids iterate in strictly descending numeric price order and the
\* asks in strictly ascending numeric price order: no side holds two levels
\* with the same price.
C19_StrictOrder ==
    /\ \A i \in 1..(Len(bids) - 1) : Float(bids[i][1]) > Float(bids[i + 1][1])
    /\ \A i \in 1..(Len(asks) - 1) : Float(asks[i][1]) < Float(asks[i + 1][1])

\* what C20 expects of one side: at every price the last delta level naming
\* it decides (present with that size if the size is > 0, absent otherwise),
\* and a price no delta level names keeps its level
C20_Side(old, lv, new) ==
    \A v \in PriceVals :
        LET named == { i \in 1..Len(lv) : Float(lv[i][1]) = v }
            last == CHOOSE i \in named : \A j \in named : j <= i
        IN  IF named = {} THEN LevelsAt(new, v) = LevelsAt(old, v)
            ELSE IF Float(lv[last][2]) > 0
            THEN /\ Len(LevelsAt(new, v)) = 1
                 /\ LevelsAt(new, v)[1][2] = lv[last][2]
            ELSE LevelsAt(new, v) = << >>

\* C20: apply_updates on a valid book gives, on each side, the old side with
\* the delta's levels upserted (size > 0) or removed (size <= 0) in frame
\* order, the other levels unchanged, and a continuous delta sets seq_id to
\* the delta's seqId.
C20_ApplyUpdates ==
    is_valid =>
        \A f \in UpdateFrames :
            LET nb == apply_updates(Book, f)
            IN  /\ C20_Side(bids, f.bids, nb.bids)
                /\ C20_Side(asks, f.asks, nb.asks)
                /\ (checksum_ok(Book, f) /\ f.seqId # None) => nb.seq_id = f.seqId

C22_Materialize ==
    is_valid =>
        \A k \in 0..(MaxLevels + 1) : \A s \in {1, 2} : \A t \in {3, 4} :
            LET rows == to_snapshot_rows(Book, s, t, k)
                nb == Cardinality({ i \in 1..Len(rows) : rows[i][3] = 1 })
                na == Cardinality({ i \in 1..Len(rows) : rows[i][3] = 2 })
            IN  /\ Len(rows) = nb + na
                /\ nb <= k
                /\ na <= k
                /\ \A i \in 1..Len(rows) :
                      /\ rows[i][1] = s
                      /\ rows[i][2] = t
                      /\ rows[i][6] \in 1..k
                /\ \A i \in 1..nb :
                      /\ rows[i][3] = 1
                      /\ rows[i][6] = i
                      /\ i > 1 => rows[i - 1][4] >= rows[i][4]
                /\ \A i \in (nb + 1)..Len(rows) :
                      /\ rows[i][3] = 2
                      /\ rows[i][6] = i - nb
                      /\ i > nb + 1 => rows[i - 1][4] <= rows[i][4]

(***************************************************************************)
(* Properties of the periodic materializer.                                *)
(***************************************************************************)

\* the snapshot ids of the rows
Ids(rows) == { rows[i][1] : i \in 1..Len(rows) }

\* the book of item j is valid and has a level
Contributes(bks, j) ==
    bks[j][2].valid /\ (bks[j][2].bids # << >> \/ bks[j][2].asks # << >>)

\* C23: the rows a tick of the periodic materializer appends to the snapshot
\* batch are, for every valid book with a level, the rows of that book
\* (at most max_depth per side) under one snapshot id that no earlier call
\* gave and no other book of the tick has, in one piece; there is no other
\* row, so a book that is not valid adds nothing.
C23_PeriodicTick ==
    LET r == PeriodicLoop(books, 1, batch_snapshots, uuids, 0)
        n0 == Len(batch_snapshots)
        new == SubSeq(r.batch, n0 + 1, Len(r.batch))
        Want(j, s) == to_snapshot_rows(books[j][2], s, 0, MaxDepth)
    IN  /\ SubSeq(r.batch, 1, n0) = batch_snapshots
        /\ \A j \in 1..Len(books) :
              Contributes(books, j) =>
                  \E s \in (uuids + 1)..r.uuids :
                      /\ SelectSeq(new, LAMBDA row : row[1] = s) = Want(j, s)
                      /\ \E p \in 1..Len(new) :
                            SubSeq(new, p, p + Len(Want(j, s)) - 1) = Want(j, s)
                      /\ \A side \in {1, 2} :
                            Len(SelectSeq(Want(j, s), LAMBDA row : row[3] = side))
                                <= MaxDepth
        /\ Cardinality(Ids(new)) =
               Cardinality({ j \in 1..Len(books) : Contributes(books, j) })

\* a tick has handed over the row-sets of two books, each of which fills a
\* batch by itself
C23_Witness ==
    /\ Len(books) = 2
    /\ \A j \in 1..2 :
          Len(to_snapshot_rows(books[j][2], 0, 0, MaxDepth)) >= BatchMaxSize
    /\ batch_snapshots = << >>
    /\ uuids >= 2
    /\ batch_to_write =
           to_snapshot_rows(books[1][2], uuids - 1, 0, MaxDepth)
               \o to_snapshot_rows(books[2][2], uuids, 0, MaxDepth)

(***************************************************************************)
(* Properties of the session manager.                                      *)
(***************************************************************************)

\* C24: whatever attempt count run_forever reaches, full_jitter_delay does
\* not fail, and the delay d it returns has 0 <= d <= min(cap, base * 2^attempt),
\* so no delay exceeds cap.
C24_DelayInRange ==
    /\ wpc # "raised"
    /\ wpc = "sleep" =>
          /\ delay # None
          /\ 0 <= delay[1]
          /\ delay[1] <= Min(BackoffCap, BackoffBase * Pow2Capped(attempt, BackoffCap))
          /\ delay[1] <= BackoffCap

\* C25: once a frame has been read on a connection the attempt counter is 0,
\* and when a connection that delivered a frame fails, the delay of the sleep
\* that follows is computed from attempt = 1.
C25_ResetOnFrame ==
    /\ (wpc = "read" /\ gotFrame) => attempt = 0
    /\ (wpc = "sleep" /\ gotFrame) => attempt = 1

\* C26: after _run_once has raised, the hook has run and the counter has been
\* incremented before the sleep starts, the connection and the subscribe frame
\* come after the sleep, and a new connection attempt always follows.
C26_Reconnect ==
    /\ [](wpc = "sleep" => wlog = << "hook", "attempt", "delay", "sleep" >>)
    /\ []((wpc = "read" /\ Head(wlog) = "hook") =>
              wlog = << "hook", "attempt", "delay", "sleep", "connect", "subscribe" >>)
    /\ (wpc \in {"sleep", "raised"}) ~> (wpc = "connect")

\* C27: on every connection, once the read loop runs, exactly one frame has
\* been sent: a subscribe frame whose args are, without repetition, the pairs
\* of a configured channel and a configured instrument, in the one order the
\* configuration gives; and a frame is read only after it was sent.
C27_SubscribeFirst ==
    /\ wpc = "read" =>
          /\ Len(wsOut) = 1
          /\ wsOut[1].op = "subscribe"
          /\ Len(wsOut[1].args) = Len(CHANNELS) * Len(INSTRUMENTS)
          /\ Range(wsOut[1].args) = Range(CHANNELS) \X Range(INSTRUMENTS)
          /\ \A c \in 1..Len(CHANNELS) : \A k \in 1..Len(INSTRUMENTS) :
                wsOut[1].args[(c - 1) * Len(INSTRUMENTS) + k]
                    = << CHANNELS[c], INSTRUMENTS[k] >>
    /\ wpc = "subscribe" => ~gotFrame /\ wsOut = << >>

\* a frame has been read on a connection opened after a failure
C27_Witness == wpc = "read" /\ gotFrame /\ attempt >= 1 /\ Len(wsOut) = 1

\* C28: when the session manager is cancelled, the reconnect hook runs before
\* run_forever is left: the step that cancels it generates the row-set of the
\* valid book, one row per level, ahead of the flush passes of the shutdown.
C28_HookOnCancel ==
    [][(CancelStep /\ book.valid /\ book.depth > 0) =>
           nextId' = nextId + book.depth]_vars

(***************************************************************************)
(* Properties of the dispatch of frames.                                   *)
(***************************************************************************)

\* the channels for which _on_message has a branch
RoutedChannels ==
    {"trades", "funding-rate", "mark-price", "tickers", "open-interest"}
        \cup BookChannels

C32_ArrivalOrder ==
    [][\A t \in Tasks :
          CallStarts(t) =>
              \A u \in Tasks \ {t} :
                  (call[u].buf = call'[t].buf /\ call'[u].buf = call[u].buf) =>
                      \A r1 \in Range(View(call[u], buf)) :
                          \A r2 \in Range(call'[t].items) :
                              r1 < r2 => r1 \in Range(call'[t].items)]_vars

\* C33: at most one writer call of a buffer is in progress.
C33_OneFlushAtATime ==
    \A t \in Tasks : \A u \in Tasks \ {t} :
        call[t].buf = "none" \/ call[t].buf # call[u].buf

\* C34: when the writer could not be initialized, the session manager opens
\* no connection and reads no frame.
C34_AbortWithoutWriter ==
    mainPc \in {"streaming", "writing", "backoff"} => hstorage

(***************************************************************************)
(* Further properties of the session manager.                              *)
(***************************************************************************)

\* C36: whenever the session manager comes back to the point where it opens
\* a connection, after an error or after a clean close, it has run the
\* reconnect hook and waited a backoff delay since the connection before.
C36_HookAndBackoffBetweenAttempts ==
    [][(wpc' = "connect" /\ wpc # "connect") =>
           wlog' = << "hook", "attempt", "delay", "sleep" >>]_vars

\* C40: when the reconnect hook raises, the session manager still increments
\* the attempt counter and starts the backoff sleep, and a new connection
\* attempt follows.
C40_HookFailureNoStall ==
    /\ [][(wpc \in {"connect", "subscribe", "read"} /\ wpc' \notin {"connect", "subscribe", "read"}
             /\ hookErr') =>
              (attempt' = attempt + 1 /\ wpc' = "sleep" /\ delay' # None)]_vars
    /\ (hookErr /\ wpc \in {"sleep", "raised"}) ~> (wpc = "connect")

(***************************************************************************)
(* Properties of the handlers on raw input.                                *)
(***************************************************************************)

\* the value recorded for a numeric field: 0 when absent or unparsable
FieldOrZero(v) == IF v # None /\ IsFloat(v[1]) THEN Float(v[1]) ELSE 0

\* C31: on a trades frame whose data elements are objects, on_trade appends
\* one record per element, in order, with 0 for every numeric field that is
\* absent or unparsable, and logs no error; an empty data array appends
\* nothing.
C31_ParseTolerance ==
    (fnArg.fn = "on_trade" /\ frame.isList
        /\ \A i \in 1..Len(frame.data) : frame.data[i].isDict) =>
            /\ Len(fnRet.appended) = Len(frame.data)
            /\ \A i \in 1..Len(frame.data) :
                  /\ fnRet.appended[i].ts_event_ms = FieldOrZero(frame.data[i].ts)
                  /\ fnRet.appended[i].px = FieldOrZero(frame.data[i].px)
            /\ fnRet.logged = None
            /\ fnRet.escaped = None

\* a level a frame may carry as a level: a list of at least two fields with
\* numeric price and size
WellFormed(l) == l.isList /\ Len(l.f) >= 2 /\ IsFloat(l.f[1]) /\ IsFloat(l.f[2])

\* the first k items of a sequence s
FirstK(s, k) == SubSeq(s, 1, IF k < Len(s) THEN k ELSE Len(s))

C37_FrameKeepsConnection ==
    [][(wpc = "read" /\ handled' # None /\ fnArg'.fn = "on_trade") =>
           (wpc' = "read" /\ fnRet'.escaped = None /\ attempt' = attempt /\ wlog' = wlog)]_vars

\* a frame with an element that is no object was dispatched and the read loop
\* goes on, or the writer failed in the size-triggered flush
C37_Witness ==
    /\ wpc = "read"
    /\ fnArg.fn = "on_trade"
    /\ handled = << "on_trade" >>
    /\ \/ fnRet.logged = << "AttributeError" >>
       \/ fnRet.flush = "failed"

\* the levels of a raw list as apply_updates takes well-formed ones
AsPairs(lv) == [i \in 1..Len(lv) |-> << lv[i].f[1], lv[i].f[2] >>]

\* C38: apply_updates on a delta with malformed levels leaves the book that
\* the delta without them leaves, returns success, and its continuity result
\* is the comparison of the sequence ids.
C38_MalformedLevelAbsent ==
    fnArg.fn = "apply_updates" =>
        LET g == [fnArg.frame EXCEPT !.bids = AsPairs(SelectSeq(@, WellFormed))]
        IN  /\ fnRet.success
            /\ fnRet.checksum_ok = checksum_ok(fnArg.book, fnArg.frame)
            /\ fnRet.book = apply_updates(fnArg.book, g)

(***************************************************************************)
(* Properties of the handler after a failed snapshot.                      *)
(***************************************************************************)

\* C39: an on_snapshot call in which apply_snapshot returned false leaves the
\* book not valid and appends no row; a book that is not valid changes only
\* in an on_snapshot call for its instrument; a delta for it materializes
\* nothing, and a periodic tick gives what it gives without the books that
\* are not valid.
C39_FailedSnapshot ==
    [][/\ (fnArg'.fn = "on_snapshot" /\ fnRet' = FALSE) =>
              /\ ~DictGet(books', fnArg'.inst).valid
              /\ UNCHANGED << batch_snapshots, batch_to_write, uuids >>
       /\ \A i \in 1..Len(books) :
              (~books[i][2].valid
                  /\ ~(fnArg'.fn = "on_snapshot" /\ fnArg'.inst = books[i][1])) =>
                      books'[i] = books[i]
       /\ (fnArg'.fn = "on_increment" /\ HasKey(books, fnArg'.inst)
              /\ ~DictGet(books, fnArg'.inst).valid) =>
                  UNCHANGED << batch_snapshots, batch_to_write, uuids >>
       /\ fnArg'.fn = "periodic_snapshots" =>
              LET vb == SelectSeq(books, LAMBDA it : it[2].valid)
                  r == PeriodicLoop(vb, 1, batch_snapshots, uuids, 0)
              IN  /\ uuids' = r.uuids
                  /\ \/ batch_snapshots' = r.batch /\ batch_to_write' = batch_to_write
                     \/ batch_snapshots' = << >> /\ batch_to_write' = r.batch]_vars

\* a delta arrived for a book that a failed snapshot left not valid with a
\* level, and no row-set has been generated
C39_Witness ==
    /\ fnArg.fn = "on_increment"
    /\ HasKey(books, fnArg.inst)
    /\ ~DictGet(books, fnArg.inst).valid
    /\ DictGet(books, fnArg.inst).bids # << >>
    /\ uuids = 0

====
